---------------------------- MODULE Spec2Model ----------------------------
(***************************************************************************)
(* Model of the signdex certificate lifecycle, signature ledger,           *)
(* per-recipient signing job and seal-document run.                        *)
(*                                                                         *)
(* Database tables are sequences of rows; the id of a row is its position. *)
(* Every handler is split at its awaits (database, blob store and CA       *)
(* calls), so that the steps of two handlers interleave the way two jobs   *)
(* do. A handler that ends frees its worker and leaves what it returned in *)
(* the variable returned.                                                  *)
(***************************************************************************)
EXTENDS Integers, Sequences, FiniteSets, TLC

\* ------------------------------------------------------------------ bounds

\* The clock runs from 0 to MaxTime.
MaxTime == 2
\* Calls of the certificate lifecycle (provision, revoke, sweep) in a
\* behaviour of SpecCert and of SpecCertSeq.
MaxCertCalls == 3
\* Calls of the certificate lifecycle in a behaviour of Spec and of SpecSeq.
MaxDocCertCalls == 2
\* Jobs (sign-with-user-certificate, seal-document) in a behaviour of Spec and
\* of SpecSeq.
MaxJobs == 2
MaxLedgerJobs == 3
MaxLedgerLen == 3
MaxIndex == 3
MaxTeamCerts == 3

\* Lifetime of an issued certificate in clock ticks: the code's 365 days.
CertValidity == 1

Users == {1, 2}
Envelopes == {1}
Recipients == {1, 2, 3}
\* The envelope items of an envelope, in order.
EnvelopeItems == <<1>>

\* Workers: how many calls of a kind can be in flight together.
ProvisionCalls == {"p1", "p2"}
RevokeCalls == {"r1"}
SweepRuns == {"w1"}
SignTasks == {"t1", "t2"}
SealRuns == {"s1", "s2"}
Teams == {1, 2}
UploadCalls == {"u1", "u2"}
SetDefaultCalls == {"d1", "d2"}

NoCert == 0
NoRecipient == 0

RecipientRole(r) == IF r = 3 THEN "CC" ELSE "SIGNER"
Signers == {r \in Recipients : RecipientRole(r) # "CC"}
\* The user a recipient signs as (the job's payload carries both ids).
RecipientUser(r) == r

\* The scheduler hands a call to the first free worker; workers of a kind are
\* interchangeable.
FirstFree(free) ==
    CHOOSE x \in free : \A y \in free :
        x = y \/ <<x, y>> \in {<<"p1", "p2">>, <<"t1", "t2">>, <<"s1", "s2">>}

\* ------------------------------------------------------------------- state

VARIABLES
    now,              \* the clock: new Date()
    userCertificate,  \* table UserCertificate
    digitalSignature, \* table DigitalSignature (the ledger), in signedAt order
    documentData,     \* table DocumentData: the stored PDFs
    envelope,         \* table Envelope: the document's status
    envelopeItem,     \* table EnvelopeItem: each item's documentDataId
    recipient,        \* table Recipient: signingStatus
    prov,             \* provisionUserCertificate calls in flight
    rev,              \* revokeUserCertificate calls in flight
    sweep,            \* check-expiration job runs in flight
    sign,             \* sign-with-user-certificate job runs in flight
    seal,             \* seal-document job runs in flight
    returned,         \* what the call or job that ended last returned or threw
    caRequests,       \* history: requestCertificate calls made to the CA
    sealSuccess,      \* history: seal runs that ran to their end, per envelope
    started,          \* history: calls and jobs started
    certificate,      \* table Certificate: the teams' certificates
    upload,           \* uploadCertificate calls in flight
    setDefault        \* setDefaultCertificate calls in flight

certVars == <<userCertificate, prov, rev, sweep, caRequests>>
docVars == <<digitalSignature, documentData, envelope, envelopeItem, recipient,
             sign, seal, sealSuccess>>
teamVars == <<certificate, upload, setDefault>>
vars == <<now, started, returned, certVars, docVars, teamVars>>

CertIds == 1..Len(userCertificate)

\* A return value (outcome "ok" or "skipped") or a thrown error.
Returned(op, outcome, value) == [op |-> op, outcome |-> outcome, value |-> value]

\* ------------------------------------------------------ certificate lookup

\* A lookup that takes a row that is ACTIVE, whatever its expiresAt.
IsActiveUnexpired_IgnoresExpiry(row) == row.status = "ACTIVE"

\* where: { status: ACTIVE, expiresAt: { gte: new Date() } }
IsActiveUnexpired(row) == row.status = "ACTIVE" /\ row.expiresAt >= now

\* A lookup that finds nothing.
ExistingCerts_NoneFound(userId) == {}

\* The rows provisionUserCertificate's findFirst can return: no orderBy, so
\* any matching row.
ExistingCerts(userId) ==
    {c \in CertIds : userCertificate[c].userId = userId
                     /\ IsActiveUnexpired(userCertificate[c])}

\* A lookup by userId alone: the user's latest row, whatever its status and
\* expiry.
ActiveUserCertificates_AnyStatus(userId) ==
    {c \in CertIds :
        /\ userCertificate[c].userId = userId
        /\ \A d \in CertIds :
              userCertificate[d].userId = userId
              => userCertificate[d].issuedAt <= userCertificate[c].issuedAt}

\* The rows getActiveUserCertificate's findFirst can return: orderBy issuedAt
\* desc, so a matching row with the latest issuedAt.
ActiveUserCertificates(userId) ==
    {c \in CertIds :
        /\ userCertificate[c].userId = userId
        /\ IsActiveUnexpired(userCertificate[c])
        /\ \A d \in CertIds :
              (userCertificate[d].userId = userId /\ IsActiveUnexpired(userCertificate[d]))
              => userCertificate[d].issuedAt <= userCertificate[c].issuedAt}

\* --------------------------------------------------------------- provision

ProvisionIdle == [pc |-> "idle", userId |-> 0]

ProvisionStart(p, userId) ==
    /\ prov[p].pc = "idle"
    /\ p = FirstFree({x \in ProvisionCalls : prov[x].pc = "idle"})
    /\ prov' = [prov EXCEPT ![p] = [pc |-> "check", userId |-> userId]]
    /\ started' = [started EXCEPT !.cert = @ + 1]
    /\ UNCHANGED <<now, returned, userCertificate, rev, sweep, caRequests, docVars, teamVars>>

\* findFirst for an active certificate: return it, or go on to the CA.
ProvisionCheck(p) ==
    /\ prov[p].pc = "check"
    /\ LET found == ExistingCerts(prov[p].userId) IN
         IF found # {}
         THEN \E c \in found :
                /\ prov' = [prov EXCEPT ![p] = ProvisionIdle]
                /\ returned' = Returned("provision", "ok", c)
         ELSE /\ prov' = [prov EXCEPT ![p].pc = "request"]
              /\ UNCHANGED returned
    /\ UNCHANGED <<now, started, userCertificate, rev, sweep, caRequests, docVars, teamVars>>

\* A provision that stores a PENDING row when the CA request fails.
ProvisionRequest_PartialRow(p) ==
    /\ prov[p].pc = "request"
    /\ caRequests' = caRequests + 1
    /\ \/ /\ prov' = [prov EXCEPT ![p].pc = "create"]
          /\ UNCHANGED <<returned, userCertificate>>
       \/ /\ prov' = [prov EXCEPT ![p] = [pc |-> "idle", userId |-> 0]]
          /\ returned' = Returned("provision", "UNKNOWN_ERROR", NoCert)
          /\ userCertificate' = Append(userCertificate,
                 [userId |-> prov[p].userId, status |-> "PENDING", issuedAt |-> now,
                  expiresAt |-> now, revokedAt |-> -1,
                  certificateData |-> <<>>, passphrase |-> <<>>])
    /\ UNCHANGED <<now, started, rev, sweep, docVars, teamVars>>

\* requestCertificate: the CA issues, or the request fails and provision
\* throws UNKNOWN_ERROR.
ProvisionRequest(p) ==
    /\ prov[p].pc = "request"
    /\ caRequests' = caRequests + 1
    /\ \/ /\ prov' = [prov EXCEPT ![p].pc = "create"]
          /\ UNCHANGED returned
       \/ /\ prov' = [prov EXCEPT ![p] = ProvisionIdle]
          /\ returned' = Returned("provision", "UNKNOWN_ERROR", NoCert)
    /\ UNCHANGED <<now, started, userCertificate, rev, sweep, docVars, teamVars>>

\* What the CA returns when it issues: the PKCS#12 bundle (bytes) and its
\* passphrase (a string, as UTF-16 code units).
CertificateResponse(userId) ==
    [certificateData |-> <<48, userId>>, passphrase |-> <<112, 48 + userId>>]

\* ------------------------------------------------------------ encryption
\* Buffers are sequences of bytes (0..255); strings are sequences of UTF-16
\* code units (0..65535), which is what a JavaScript string is.

ALGORITHM == "aes-256-gcm"
IV_LENGTH == 16
AUTH_TAG_LENGTH == 16
SALT_LENGTH == 64

\* env('NEXT_PRIVATE_ENCRYPTION_KEY') || env('NEXTAUTH_SECRET'): the secret
\* of this deployment, the same for every call.
Secret == 42

HighSurrogates == 55296 .. 56319
LowSurrogates == 56320 .. 57343

\* buf.subarray(start, end): both ends clamped to the buffer.
Subarray(buf, start, end) ==
    LET s == IF start > Len(buf) THEN Len(buf) ELSE start
        e == IF end > Len(buf) THEN Len(buf) ELSE end
    IN  SubSeq(buf, s + 1, e)

\* Buffer.from(str, 'utf-8'): a surrogate pair becomes one four-byte
\* sequence, a surrogate with no partner becomes U+FFFD (EF BF BD).
RECURSIVE Utf8Encode(_)
Utf8Encode(str) ==
    IF str = <<>> THEN <<>>
    ELSE LET u == Head(str) IN
         IF u < 128 THEN <<u>> \o Utf8Encode(Tail(str))
         ELSE IF u < 2048
         THEN <<192 + (u \div 64), 128 + (u % 64)>> \o Utf8Encode(Tail(str))
         ELSE IF u \in HighSurrogates /\ Len(str) > 1 /\ str[2] \in LowSurrogates
         THEN LET cp == 65536 + (u - 55296) * 1024 + (str[2] - 56320)
              IN  <<240 + (cp \div 262144), 128 + ((cp \div 4096) % 64),
                    128 + ((cp \div 64) % 64), 128 + (cp % 64)>>
                     \o Utf8Encode(Tail(Tail(str)))
         ELSE IF u \in HighSurrogates \cup LowSurrogates
         THEN <<239, 191, 189>> \o Utf8Encode(Tail(str))
         ELSE <<224 + (u \div 4096), 128 + ((u \div 64) % 64), 128 + (u % 64)>>
                 \o Utf8Encode(Tail(str))

\* buf.toString('utf-8'): a byte that starts no well-formed sequence decodes
\* to U+FFFD.
RECURSIVE Utf8Decode(_)
Utf8Decode(buf) ==
    LET Cont(i) == i <= Len(buf) /\ buf[i] \in 128 .. 191
        b == Head(buf)
    IN  IF buf = <<>> THEN <<>>
        ELSE IF b < 128 THEN <<b>> \o Utf8Decode(Tail(buf))
        ELSE IF b \in 194 .. 223 /\ Cont(2)
        THEN <<(b - 192) * 64 + (buf[2] - 128)>> \o Utf8Decode(SubSeq(buf, 3, Len(buf)))
        ELSE IF b \in 224 .. 239 /\ Cont(2) /\ Cont(3)
                /\ ((b - 224) * 4096 + (buf[2] - 128) * 64 + (buf[3] - 128))
                      \notin (0 .. 2047) \cup HighSurrogates \cup LowSurrogates
        THEN <<(b - 224) * 4096 + (buf[2] - 128) * 64 + (buf[3] - 128)>>
                \o Utf8Decode(SubSeq(buf, 4, Len(buf)))
        ELSE IF b \in 240 .. 244 /\ Cont(2) /\ Cont(3) /\ Cont(4)
        THEN LET cp == (b - 240) * 262144 + (buf[2] - 128) * 4096
                          + (buf[3] - 128) * 64 + (buf[4] - 128)
             IN  <<55296 + ((cp - 65536) \div 1024), 56320 + ((cp - 65536) % 1024)>>
                    \o Utf8Decode(SubSeq(buf, 5, Len(buf)))
        ELSE <<65533>> \o Utf8Decode(Tail(buf))

\* buf.toString('base64'): three bytes to four sextets, 64 standing for '='.
RECURSIVE ToBase64(_)
ToBase64(buf) ==
    IF buf = <<>> THEN <<>>
    ELSE IF Len(buf) = 1
    THEN <<buf[1] \div 4, (buf[1] % 4) * 16, 64, 64>>
    ELSE IF Len(buf) = 2
    THEN <<buf[1] \div 4, (buf[1] % 4) * 16 + (buf[2] \div 16), (buf[2] % 16) * 4, 64>>
    ELSE <<buf[1] \div 4, (buf[1] % 4) * 16 + (buf[2] \div 16),
           (buf[2] % 16) * 4 + (buf[3] \div 64), buf[3] % 64>>
            \o ToBase64(SubSeq(buf, 4, Len(buf)))

\* Buffer.from(str, 'base64').
RECURSIVE FromBase64(_)
FromBase64(str) ==
    IF Len(str) < 4 THEN <<>>
    ELSE IF str[3] = 64
    THEN <<str[1] * 4 + (str[2] \div 16)>>
    ELSE IF str[4] = 64
    THEN <<str[1] * 4 + (str[2] \div 16), (str[2] % 16) * 16 + (str[3] \div 4)>>
    ELSE <<str[1] * 4 + (str[2] \div 16), (str[2] % 16) * 16 + (str[3] \div 4),
           (str[3] % 4) * 64 + str[4]>>
            \o FromBase64(SubSeq(str, 5, Len(str)))

\* crypto.randomBytes(size), for the draw r.
RandomBytes(size, r) == [i \in 1 .. size |-> r]

\* getEncryptionKey: pbkdf2 of the secret and the salt.
GetEncryptionKey(salt) ==
    (Secret + (IF salt = <<>> THEN 0 ELSE salt[1] + salt[Len(salt)])) % 256

\* The AES-GCM key stream and tag for a key and an iv: update() adds the
\* stream to the bytes, the tag authenticates the ciphertext.
KeyStream(key, iv, i) == (key + (IF iv = <<>> THEN 0 ELSE iv[1]) + i) % 256
GetAuthTag(key, iv, encrypted) ==
    [i \in 1 .. AUTH_TAG_LENGTH |-> (KeyStream(key, iv, i) + Len(encrypted)) % 256]

\* decipher.final() throwing "unable to authenticate data".
Unauthenticated == <<-1>>

\* encryptData with its two random draws made: [salt][iv][authTag][encrypted].
EncryptDataWith(dataBuffer, salt, iv) ==
    LET key == GetEncryptionKey(salt)
        encrypted == [i \in 1 .. Len(dataBuffer) |->
                         (dataBuffer[i] + KeyStream(key, iv, i)) % 256]
        authTag == GetAuthTag(key, iv, encrypted)
    IN  salt \o iv \o authTag \o encrypted

\* encryptData of a Buffer.
EncryptData(data) ==
    EncryptDataWith(data, RandomBytes(SALT_LENGTH, 0), RandomBytes(IV_LENGTH, 0))

\* A decryptData that forgets the tag sits between the iv and the ciphertext.
DecryptData_TagInCiphertext(encryptedData) ==
    LET salt == Subarray(encryptedData, 0, SALT_LENGTH)
        iv == Subarray(encryptedData, SALT_LENGTH, SALT_LENGTH + IV_LENGTH)
        encrypted == Subarray(encryptedData, SALT_LENGTH + IV_LENGTH,
                              Len(encryptedData))
        key == GetEncryptionKey(salt)
    IN  [i \in 1 .. Len(encrypted) |->
            (encrypted[i] + 512 - KeyStream(key, iv, i)) % 256]

\* decryptData: slices salt, iv, tag and ciphertext out of the buffer.
DecryptData(encryptedData) ==
    LET salt == Subarray(encryptedData, 0, SALT_LENGTH)
        iv == Subarray(encryptedData, SALT_LENGTH, SALT_LENGTH + IV_LENGTH)
        authTag == Subarray(encryptedData, SALT_LENGTH + IV_LENGTH,
                            SALT_LENGTH + IV_LENGTH + AUTH_TAG_LENGTH)
        encrypted == Subarray(encryptedData, SALT_LENGTH + IV_LENGTH + AUTH_TAG_LENGTH,
                              Len(encryptedData))
        key == GetEncryptionKey(salt)
    IN  IF authTag = GetAuthTag(key, iv, encrypted)
        THEN [i \in 1 .. Len(encrypted) |->
                 (encrypted[i] + 512 - KeyStream(key, iv, i)) % 256]
        ELSE Unauthenticated

\* encryptString with its two random draws made.
EncryptStringWith(data, salt, iv) ==
    ToBase64(EncryptDataWith(Utf8Encode(data), salt, iv))

\* encryptString: the UTF-8 bytes of the string, encrypted, in base64.
EncryptString(data) ==
    EncryptStringWith(data, RandomBytes(SALT_LENGTH, 0), RandomBytes(IV_LENGTH, 0))

\* decryptString: base64 to bytes, decrypted, read as UTF-8.
DecryptString(encryptedBase64) ==
    Utf8Decode(DecryptData(FromBase64(encryptedBase64)))

NewCertificateRow(userId) ==
    [userId |-> userId, status |-> "ACTIVE", issuedAt |-> now,
     expiresAt |-> now + CertValidity, revokedAt |-> -1,
     certificateData |-> EncryptData(CertificateResponse(userId).certificateData),
     passphrase |-> EncryptString(CertificateResponse(userId).passphrase)]

\* prisma.userCertificate.create with status ACTIVE.
ProvisionCreate(p) ==
    /\ prov[p].pc = "create"
    /\ userCertificate' = Append(userCertificate, NewCertificateRow(prov[p].userId))
    /\ prov' = [prov EXCEPT ![p] = ProvisionIdle]
    /\ returned' = Returned("provision", "ok", Len(userCertificate) + 1)
    /\ UNCHANGED <<now, started, rev, sweep, caRequests, docVars, teamVars>>

\* --------------------------------------------------------------- getActive

\* A result that carries the decrypted secrets whatever includeData says.
GetActiveResult_AlwaysDecrypts(c, includeData) ==
    [id |-> c, userId |-> userCertificate[c].userId,
     status |-> userCertificate[c].status,
     expiresAt |-> userCertificate[c].expiresAt,
     certificateData |-> DecryptData(userCertificate[c].certificateData),
     passphrase |-> DecryptString(userCertificate[c].passphrase)]

\* What getActiveUserCertificate returns for the row it found: the row, with
\* certificateData and passphrase decrypted when includeData is set.
GetActiveResult(c, includeData) ==
    [id |-> c, userId |-> userCertificate[c].userId,
     status |-> userCertificate[c].status,
     expiresAt |-> userCertificate[c].expiresAt,
     certificateData |-> IF includeData
                         THEN DecryptData(userCertificate[c].certificateData)
                         ELSE userCertificate[c].certificateData,
     passphrase |-> IF includeData
                    THEN DecryptString(userCertificate[c].passphrase)
                    ELSE userCertificate[c].passphrase]

\* getActiveUserCertificate returning null.
NullCertificate == [id |-> NoCert]

\* getActiveUserCertificate as a call of its own: the router's getActive
\* passes includeData false, the signing code true.
GetActive(userId, includeData) ==
    /\ started' = [started EXCEPT !.cert = @ + 1]
    /\ LET found == ActiveUserCertificates(userId) IN
         IF found = {}
         THEN returned' = Returned("getActive", "null", NullCertificate)
         ELSE \E c \in found :
                returned' = Returned("getActive", "ok", GetActiveResult(c, includeData))
    /\ UNCHANGED <<now, certVars, teamVars, docVars>>

\* ------------------------------------------------------------------ revoke

RevokeIdle == [pc |-> "idle", certificateId |-> NoCert, userId |-> 0]

RevokeStart(r, certificateId, userId) ==
    /\ rev[r].pc = "idle"
    /\ rev' = [rev EXCEPT ![r] = [pc |-> "find", certificateId |-> certificateId,
                                  userId |-> userId]]
    /\ started' = [started EXCEPT !.cert = @ + 1]
    /\ UNCHANGED <<now, returned, userCertificate, prov, sweep, caRequests, docVars, teamVars>>

\* findFirst {id, userId}. NOT_FOUND and INVALID_REQUEST are thrown inside the
\* try block, whose catch throws UNKNOWN_ERROR in their place.
RevokeFind(r) ==
    /\ rev[r].pc = "find"
    /\ LET c == rev[r].certificateId
           owned == c \in CertIds /\ userCertificate[c].userId = rev[r].userId
       IN IF ~owned \/ userCertificate[c].status = "REVOKED"
          THEN /\ rev' = [rev EXCEPT ![r] = RevokeIdle]
               /\ returned' = Returned("revoke", "UNKNOWN_ERROR", c)
          ELSE /\ rev' = [rev EXCEPT ![r].pc = "ca"]
               /\ UNCHANGED returned
    /\ UNCHANGED <<now, started, userCertificate, prov, sweep, caRequests, docVars, teamVars>>

\* revokeOpenXPKICertificate: when it throws, the update is not reached.
RevokeAtCA(r) ==
    /\ rev[r].pc = "ca"
    /\ \/ /\ rev' = [rev EXCEPT ![r].pc = "update"]
          /\ UNCHANGED returned
       \/ /\ rev' = [rev EXCEPT ![r] = RevokeIdle]
          /\ returned' = Returned("revoke", "UNKNOWN_ERROR", rev[r].certificateId)
    /\ UNCHANGED <<now, started, userCertificate, prov, sweep, caRequests, docVars, teamVars>>

\* update {id} set status REVOKED, revokedAt now.
RevokeUpdate(r) ==
    /\ rev[r].pc = "update"
    /\ userCertificate' = [userCertificate EXCEPT
                             ![rev[r].certificateId].status = "REVOKED",
                             ![rev[r].certificateId].revokedAt = now]
    /\ rev' = [rev EXCEPT ![r] = RevokeIdle]
    /\ returned' = Returned("revoke", "ok", rev[r].certificateId)
    /\ UNCHANGED <<now, started, prov, sweep, caRequests, docVars, teamVars>>

\* -------------------------------------------------------- expiration sweep

SweepIdle == [pc |-> "idle", expiredCerts |-> {}]

\* A selection that drops the status filter.
ExpiredCerts_AnyStatus ==
    {c \in CertIds : userCertificate[c].expiresAt < now}

\* where: { status: ACTIVE, expiresAt: { lt: new Date() } }
ExpiredCerts ==
    {c \in CertIds : userCertificate[c].status = "ACTIVE"
                     /\ userCertificate[c].expiresAt < now}

\* findMany; nothing found: return expiredCount 0.
SweepSelect(w) ==
    /\ sweep[w].pc = "idle"
    /\ started' = [started EXCEPT !.cert = @ + 1]
    /\ IF ExpiredCerts = {}
       THEN /\ returned' = Returned("sweep", "ok", 0)
            /\ UNCHANGED sweep
       ELSE /\ sweep' = [sweep EXCEPT ![w] = [pc |-> "update",
                                              expiredCerts |-> ExpiredCerts]]
            /\ UNCHANGED returned
    /\ UNCHANGED <<now, userCertificate, prov, rev, caRequests, docVars, teamVars>>

\* updateMany where id in the selected ids (no status in the where clause);
\* returns the number of rows updated.
SweepUpdate(w) ==
    /\ sweep[w].pc = "update"
    /\ userCertificate' = [c \in CertIds |->
                             IF c \in sweep[w].expiredCerts
                             THEN [userCertificate[c] EXCEPT !.status = "EXPIRED"]
                             ELSE userCertificate[c]]
    /\ sweep' = [sweep EXCEPT ![w] = SweepIdle]
    /\ returned' = Returned("sweep", "ok", Cardinality(sweep[w].expiredCerts))
    /\ UNCHANGED <<now, started, prov, rev, caRequests, docVars, teamVars>>

\* --------------------------------------------------------------------- PDF

\* A PDF: the envelope item it was uploaded for, whether field content and
\* pages were burned in, whether signatures of the loaded bytes were destroyed
\* by a rewrite, and its signatures in the order applied.
OriginalPdf(i) == [item |-> i, decorated |-> FALSE, burned |-> FALSE, sigs |-> <<>>]

UserSignature(certificateId, fieldName) ==
    [signer |-> "user", cert |-> certificateId, field |-> fieldName]
SystemSignature(fieldName) ==
    [signer |-> "system", cert |-> NoCert, field |-> fieldName]
FallbackSignature ==
    [signer |-> "fallback", cert |-> NoCert, field |-> 0]

\* pdf.sign: an incremental update appending one signature. Field name 0 is
\* the library's default name, used when no signatureIndex is passed.
SignPdfIncrementally(pdf, signature) ==
    [pdf EXCEPT !.sigs = Append(@, signature)]

\* PDFDocument.load, flatten, insert fields and pages, save: the file is
\* rewritten, which destroys the signatures the loaded bytes carried.
Decorate(pdf) ==
    [pdf EXCEPT !.decorated = TRUE,
                !.burned = (pdf.burned \/ Len(pdf.sigs) > 0),
                !.sigs = <<>>]

\* signPdf with the local transport: one signature, not incremental.
SignPdf(pdf) == [pdf EXCEPT !.sigs = <<FallbackSignature>>]

\* putPdfFileServerSide: a new DocumentData row, initialData equal to data.
NewDocumentData(pdf) == [data |-> pdf, initialData |-> pdf]

\* ------------------------------------------------------------------ ledger

LedgerOf(envelopeId) ==
    SelectSeq(digitalSignature, LAMBDA row : row.envelopeId = envelopeId)

IndicesOf(envelopeId) ==
    {digitalSignature[k].signatureIndex :
        k \in {j \in DOMAIN digitalSignature : digitalSignature[j].envelopeId = envelopeId}}

SetMax(S) == CHOOSE x \in S : \A y \in S : y <= x

\* An index taken over the records of every envelope.
GetNextSignatureIndex_AllEnvelopes(envelopeId) ==
    (IF digitalSignature = <<>> THEN 0
     ELSE SetMax({digitalSignature[k].signatureIndex : k \in DOMAIN digitalSignature})) + 1

\* An index that skips one.
GetNextSignatureIndex_SkipOne(envelopeId) ==
    (IF IndicesOf(envelopeId) = {} THEN 0 ELSE SetMax(IndicesOf(envelopeId))) + 2

\* findFirst orderBy signatureIndex desc; (lastSignature?.signatureIndex ?? 0) + 1
GetNextSignatureIndex(envelopeId) ==
    (IF IndicesOf(envelopeId) = {} THEN 0 ELSE SetMax(IndicesOf(envelopeId))) + 1

\* existingSignatures.length + 1
SystemSealIndex(existingSignatures) == Len(existingSignatures) + 1

\* A record indexed by the recipient's position in the recipient list.
RecordDigitalSignature_ListOrder(envelopeId, recipientId, userCertificateId, signatureIndex) ==
    [envelopeId |-> envelopeId, recipientId |-> recipientId,
     userCertificateId |-> userCertificateId, teamCertificateId |-> NoCert,
     signatureIndex |-> recipientId]

RecordDigitalSignature(envelopeId, recipientId, userCertificateId, signatureIndex) ==
    [envelopeId |-> envelopeId, recipientId |-> recipientId,
     userCertificateId |-> userCertificateId, teamCertificateId |-> NoCert,
     signatureIndex |-> signatureIndex]

\* findFirst where envelopeId, recipientId; !!signature. The signing task's
\* handler does not call it.
HasRecipientDigitallySigned(envelopeId, recipientId) ==
    \E k \in DOMAIN digitalSignature :
       /\ digitalSignature[k].envelopeId = envelopeId
       /\ digitalSignature[k].recipientId = recipientId

\* -------------------------------------------------------------- recipients

\* A signer completes the fields, or rejects the document.
RecipientSigns(e, r) ==
    /\ RecipientRole(r) # "CC"
    /\ recipient[e][r] = "NOT_SIGNED"
    /\ envelope[e].status = "PENDING"
    /\ recipient' = [recipient EXCEPT ![e][r] = "SIGNED"]
    /\ UNCHANGED <<now, started, returned, certVars, teamVars, digitalSignature, documentData,
                   envelope, envelopeItem, sign, seal, sealSuccess>>

RecipientRejects(e, r) ==
    /\ RecipientRole(r) # "CC"
    /\ recipient[e][r] = "NOT_SIGNED"
    /\ envelope[e].status = "PENDING"
    /\ recipient' = [recipient EXCEPT ![e][r] = "REJECTED"]
    /\ UNCHANGED <<now, started, returned, certVars, teamVars, digitalSignature, documentData,
                   envelope, envelopeItem, sign, seal, sealSuccess>>

\* ---------------------------------------- sign-with-user-certificate job

SignIdle == [pc |-> "idle", envelopeId |-> 0, recipientId |-> NoRecipient, userId |-> 0,
             pdf |-> <<>>, certificateId |-> NoCert, signer |-> NoCert,
             signatureIndex |-> 0]

\* isOpenXPKIEnabled, then envelope.findFirstOrThrow with the items and their
\* documentData: the PDF the job signs is the one this read returns.
SignStart(t, e, r) ==
    /\ sign[t].pc = "idle"
    /\ t = FirstFree({x \in SignTasks : sign[x].pc = "idle"})
    /\ started' = [started EXCEPT !.jobs = @ + 1]
    /\ \/ /\ sign' = [sign EXCEPT ![t] =
                        [SignIdle EXCEPT
                           !.pc = "certificate",
                           !.envelopeId = e, !.recipientId = r,
                           !.userId = RecipientUser(r),
                           !.pdf = documentData[envelopeItem[e][1]].data]]
          /\ UNCHANGED returned
       \/ /\ returned' = Returned("sign", "skipped", 0)
          /\ UNCHANGED sign
    /\ UNCHANGED <<now, certVars, teamVars, digitalSignature, documentData, envelope, envelopeItem,
                   recipient, seal, sealSuccess>>

\* The handler's getActiveUserCertificate: no certificate, no signature.
SignGetCertificate(t) ==
    /\ sign[t].pc = "certificate"
    /\ LET found == ActiveUserCertificates(sign[t].userId) IN
         IF found = {}
         THEN /\ sign' = [sign EXCEPT ![t] = SignIdle]
              /\ returned' = Returned("sign", "skipped", 0)
         ELSE /\ \E c \in found :
                   sign' = [sign EXCEPT ![t].pc = "transport", ![t].certificateId = c]
              /\ UNCHANGED returned
    /\ UNCHANGED <<now, started, certVars, teamVars, digitalSignature, documentData, envelope,
                   envelopeItem, recipient, seal, sealSuccess>>

\* signPdfWithUserCertificate looks the certificate up again; none: it throws,
\* and the handler's catch returns success false.
SignTransportLookup(t) ==
    /\ sign[t].pc = "transport"
    /\ LET found == ActiveUserCertificates(sign[t].userId) IN
         IF found = {}
         THEN /\ sign' = [sign EXCEPT ![t] = SignIdle]
              /\ returned' = Returned("sign", "error", 0)
         ELSE /\ \E c \in found :
                   sign' = [sign EXCEPT ![t].pc = "signing", ![t].signer = c]
              /\ UNCHANGED returned
    /\ UNCHANGED <<now, started, certVars, teamVars, digitalSignature, documentData, envelope,
                   envelopeItem, recipient, seal, sealSuccess>>

\* envelopeItem.updateMany where envelopeId: every item of the envelope.
RepointItems(e, documentDataId) ==
    [envelopeItem EXCEPT ![e] = [i \in DOMAIN envelopeItem[e] |-> documentDataId]]

\* signPdfIncrementally with no signatureIndex, putPdfFileServerSide, and the
\* updateMany that points the envelope's items at the new row (the row is
\* referenced by nothing until then).
SignAndStore(t) ==
    /\ sign[t].pc = "signing"
    /\ documentData' = Append(documentData, NewDocumentData(
           SignPdfIncrementally(sign[t].pdf, UserSignature(sign[t].signer, 0))))
    /\ envelopeItem' = RepointItems(sign[t].envelopeId, Len(documentData) + 1)
    /\ sign' = [sign EXCEPT ![t].pc = "index"]
    /\ UNCHANGED <<now, started, returned, certVars, teamVars, digitalSignature, envelope,
                   recipient, seal, sealSuccess>>

SignNextIndex(t) ==
    /\ sign[t].pc = "index"
    /\ sign' = [sign EXCEPT ![t].pc = "record",
                            ![t].signatureIndex = GetNextSignatureIndex(sign[t].envelopeId)]
    /\ UNCHANGED <<now, started, returned, certVars, teamVars, digitalSignature, documentData,
                   envelope, envelopeItem, recipient, seal, sealSuccess>>

\* A task that overwrites the record its recipient already has.
SignRecord_Upsert(t) ==
    /\ sign[t].pc = "record"
    /\ LET new == RecordDigitalSignature(sign[t].envelopeId, sign[t].recipientId,
                                         sign[t].certificateId, sign[t].signatureIndex)
           old == {k \in DOMAIN digitalSignature :
                     /\ digitalSignature[k].envelopeId = sign[t].envelopeId
                     /\ digitalSignature[k].recipientId = sign[t].recipientId}
       IN digitalSignature' =
             IF old = {} THEN Append(digitalSignature, new)
             ELSE [k \in DOMAIN digitalSignature |->
                      IF k \in old THEN new ELSE digitalSignature[k]]
    /\ sign' = [sign EXCEPT ![t] = SignIdle]
    /\ returned' = Returned("sign", "ok", sign[t].signatureIndex)
    /\ UNCHANGED <<now, started, certVars, teamVars, documentData, envelope, envelopeItem,
                   recipient, seal, sealSuccess>>

\* recordDigitalSignature with the certificate the handler looked up.
SignRecord(t) ==
    /\ sign[t].pc = "record"
    /\ digitalSignature' = Append(digitalSignature,
           RecordDigitalSignature(sign[t].envelopeId, sign[t].recipientId,
                                  sign[t].certificateId, sign[t].signatureIndex))
    /\ sign' = [sign EXCEPT ![t] = SignIdle]
    /\ returned' = Returned("sign", "ok", sign[t].signatureIndex)
    /\ UNCHANGED <<now, started, certVars, teamVars, documentData, envelope, envelopeItem,
                   recipient, seal, sealSuccess>>

\* A handler whose catch rethrows.
SignThrow_Propagates(t) ==
    /\ sign[t].pc \notin {"idle"}
    /\ sign' = [sign EXCEPT ![t] = SignIdle]
    /\ returned' = Returned("sign", "thrown", 0)
    /\ UNCHANGED <<now, started, certVars, teamVars, digitalSignature, documentData, envelope,
                   envelopeItem, recipient, seal, sealSuccess>>

\* An await of the handler throws: the catch returns success false.
SignThrow(t) ==
    /\ sign[t].pc \notin {"idle"}
    /\ sign' = [sign EXCEPT ![t] = SignIdle]
    /\ returned' = Returned("sign", "error", 0)
    /\ UNCHANGED <<now, started, certVars, teamVars, digitalSignature, documentData, envelope,
                   envelopeItem, recipient, seal, sealSuccess>>

\* ----------------------------------------------------- seal-document run

SealIdle == [pc |-> "idle", envelopeId |-> 0, isResealing |-> FALSE, isRejected |-> FALSE,
             envelopeItems |-> <<>>, item |-> 0, pdfForSigning |-> <<>>,
             existingSignatures |-> <<>>, next |-> 0,
             newDocumentData |-> <<>>]

\* recipients.some(REJECTED) || recipients.every(SIGNED || role CC)
IsComplete(recipients) ==
    \/ \E r \in Recipients : recipients[r] = "REJECTED"
    \/ \A r \in Recipients : recipients[r] = "SIGNED" \/ RecipientRole(r) = "CC"

\* Boolean(recipientsWithoutCCers.find(REJECTED))
IsRejected(recipients) ==
    \E r \in Recipients : RecipientRole(r) # "CC" /\ recipients[r] = "REJECTED"

\* fieldsContainUnsignedRequiredField: a signer's required field is inserted
\* when the signer completes.
UnsignedRequiredField(recipients) ==
    \E r \in Recipients : RecipientRole(r) # "CC" /\ recipients[r] # "SIGNED"

\* The items as the run keeps them: with isResealing, data is initialData.
LoadEnvelopeItems(e, isResealing) ==
    [i \in DOMAIN envelopeItem[e] |->
        [id |-> i,
         documentDataId |-> envelopeItem[e][i],
         pdf |-> IF isResealing
                 THEN documentData[envelopeItem[e][i]].initialData
                 ELSE documentData[envelopeItem[e][i]].data]]

\* A head of run without the completion and field checks.
SealStart_NoCheck(s, e, isResealing) ==
    /\ seal[s].pc = "idle"
    /\ s = FirstFree({x \in SealRuns : seal[x].pc = "idle"})
    /\ started' = [started EXCEPT !.jobs = @ + 1]
    /\ recipient' = [recipient EXCEPT ![e] =
                       [r \in Recipients |->
                          IF RecipientRole(r) = "CC" THEN "SIGNED" ELSE recipient[e][r]]]
    /\ seal' = [seal EXCEPT ![s] =
                 [SealIdle EXCEPT
                    !.pc = "decorate", !.envelopeId = e,
                    !.isResealing = isResealing,
                    !.isRejected = IsRejected(recipient[e]),
                    !.envelopeItems = LoadEnvelopeItems(e, isResealing),
                    !.item = 1]]
    /\ UNCHANGED <<now, returned, certVars, teamVars, digitalSignature, documentData, envelope,
                   envelopeItem, sign, sealSuccess>>

\* The head of run: load the envelope, mark CC recipients SIGNED, check that
\* the document is complete and has no unsigned required field.
SealStart(s, e, isResealing) ==
    /\ seal[s].pc = "idle"
    /\ s = FirstFree({x \in SealRuns : seal[x].pc = "idle"})
    /\ started' = [started EXCEPT !.jobs = @ + 1]
    /\ recipient' = [recipient EXCEPT ![e] =
                       [r \in Recipients |->
                          IF RecipientRole(r) = "CC" THEN "SIGNED" ELSE recipient[e][r]]]
    /\ LET recipients == recipient[e]
           proceeds == /\ IsComplete(recipients)
                       /\ IsRejected(recipients) \/ ~UnsignedRequiredField(recipients)
       IN IF proceeds
          THEN /\ seal' = [seal EXCEPT ![s] =
                            [SealIdle EXCEPT
                               !.pc = "decorate", !.envelopeId = e,
                               !.isResealing = isResealing,
                               !.isRejected = IsRejected(recipients),
                               !.envelopeItems = LoadEnvelopeItems(e, isResealing),
                               !.item = 1]]
               /\ UNCHANGED returned
          ELSE /\ returned' = Returned("seal", "error", 0)
               /\ UNCHANGED seal
    /\ UNCHANGED <<now, certVars, teamVars, digitalSignature, documentData, envelope, envelopeItem,
                   sign, sealSuccess>>

\* decorateAndSignPdf up to the ledger read: rebuild the item's PDF, then
\* findMany the envelope's signatures orderBy signedAt asc.
SealDecorate(s) ==
    /\ seal[s].pc = "decorate"
    /\ LET existing == LedgerOf(seal[s].envelopeId) IN
         seal' = [seal EXCEPT
                    ![s].pc = IF Len(existing) = 0 THEN "seal" ELSE "replay",
                    ![s].pdfForSigning = Decorate(seal[s].envelopeItems[seal[s].item].pdf),
                    ![s].existingSignatures = existing,
                    ![s].next = 1]
    /\ UNCHANGED <<now, started, returned, certVars, teamVars, digitalSignature, documentData, envelope,
                   envelopeItem, recipient, sign, sealSuccess>>

\* A replay loop without its try and catch: a record that cannot be
\* replayed ends the run.
SealReplay_FailureEndsRun(s) ==
    /\ seal[s].pc = "replay"
    /\ LET signature == seal[s].existingSignatures[seal[s].next]
           found == IF signature.userCertificateId = NoCert THEN {}
                    ELSE ActiveUserCertificates(
                             userCertificate[signature.userCertificateId].userId)
           after == IF seal[s].next = Len(seal[s].existingSignatures)
                    THEN "seal" ELSE "replay"
       IN \/ /\ seal' = [seal EXCEPT ![s] = SealIdle]
             /\ returned' = Returned("seal", "error", 0)
          \/ \E c \in found :
               /\ seal' = [seal EXCEPT
                             ![s].pc = after, ![s].next = @ + 1,
                             ![s].pdfForSigning =
                                SignPdfIncrementally(@,
                                  UserSignature(c, signature.signatureIndex))]
               /\ UNCHANGED returned
    /\ UNCHANGED <<now, started, certVars, teamVars, digitalSignature, documentData, envelope,
                   envelopeItem, recipient, sign, sealSuccess>>

\* One iteration of the replay loop: skip a record without userCertificate or
\* whose user has no active certificate, or whose signing throws; otherwise
\* sign with the user's active certificate under the record's signatureIndex.
SealReplay(s) ==
    /\ seal[s].pc = "replay"
    /\ LET signature == seal[s].existingSignatures[seal[s].next]
           found == IF signature.userCertificateId = NoCert THEN {}
                    ELSE ActiveUserCertificates(
                             userCertificate[signature.userCertificateId].userId)
           after == IF seal[s].next = Len(seal[s].existingSignatures)
                    THEN "seal" ELSE "replay"
       IN \/ /\ found = {}
             /\ seal' = [seal EXCEPT ![s].pc = after, ![s].next = @ + 1]
          \/ \E c \in found, signed \in BOOLEAN :
               /\ seal' = [seal EXCEPT
                             ![s].pc = after, ![s].next = @ + 1,
                             ![s].pdfForSigning =
                                IF signed
                                THEN SignPdfIncrementally(@,
                                       UserSignature(c, signature.signatureIndex))
                                ELSE @]
    /\ UNCHANGED <<now, started, returned, certVars, teamVars, digitalSignature, documentData, envelope,
                   envelopeItem, recipient, sign, sealSuccess>>

\* A system seal without the fallback: a failed incremental step ends the run.
SealSystem_NoFallback(s) ==
    /\ seal[s].pc = "seal"
    /\ LET systemSealIndex == SystemSealIndex(seal[s].existingSignatures) IN
         \/ /\ seal' = [seal EXCEPT
                          ![s].pc = "store",
                          ![s].pdfForSigning =
                             SignPdfIncrementally(@, SystemSignature(systemSealIndex))]
            /\ digitalSignature' = Append(digitalSignature,
                   RecordDigitalSignature(seal[s].envelopeId, NoRecipient, NoCert,
                                          systemSealIndex))
            /\ UNCHANGED returned
         \/ /\ seal' = [seal EXCEPT ![s] = SealIdle]
            /\ returned' = Returned("seal", "error", 0)
            /\ UNCHANGED digitalSignature
    /\ UNCHANGED <<now, started, certVars, teamVars, documentData, envelope, envelopeItem,
                   recipient, sign, sealSuccess>>

\* The system seal: incremental signing and the ledger record, or, when that
\* throws, the fallback signPdf.
SealSystem(s) ==
    /\ seal[s].pc = "seal"
    /\ LET systemSealIndex == SystemSealIndex(seal[s].existingSignatures) IN
         \/ /\ seal' = [seal EXCEPT
                          ![s].pc = "store",
                          ![s].pdfForSigning =
                             SignPdfIncrementally(@, SystemSignature(systemSealIndex))]
            /\ digitalSignature' = Append(digitalSignature,
                   RecordDigitalSignature(seal[s].envelopeId, NoRecipient, NoCert,
                                          systemSealIndex))
            /\ UNCHANGED returned
         \/ /\ seal' = [seal EXCEPT ![s].pc = "store",
                                    ![s].pdfForSigning = SignPdf(@)]
            /\ UNCHANGED <<digitalSignature, returned>>
    /\ UNCHANGED <<now, started, certVars, teamVars, documentData, envelope, envelopeItem,
                   recipient, sign, sealSuccess>>

\* putPdfFileServerSide of the sealed bytes and envelopeItem.updateMany where
\* envelopeId, then the next item of the loop.
SealStore(s) ==
    /\ seal[s].pc = "store"
    /\ documentData' = Append(documentData, NewDocumentData(seal[s].pdfForSigning))
    /\ envelopeItem' = RepointItems(seal[s].envelopeId, Len(documentData) + 1)
    /\ seal' = [seal EXCEPT
                  ![s].pc = IF seal[s].item = Len(seal[s].envelopeItems)
                            THEN "commit" ELSE "decorate",
                  ![s].item = @ + 1,
                  ![s].newDocumentData = Append(@,
                      [oldDocumentDataId |->
                           seal[s].envelopeItems[seal[s].item].documentDataId,
                       newDocumentDataId |-> Len(documentData) + 1])]
    /\ UNCHANGED <<now, started, returned, certVars, teamVars, digitalSignature, envelope,
                   recipient, sign, sealSuccess>>

\* The transaction: copy each new row's data into the old row, in order, and
\* set the status.
RECURSIVE CopyData(_, _)
CopyData(rows, pairs) ==
    IF pairs = <<>> THEN rows
    ELSE CopyData([rows EXCEPT ![Head(pairs).oldDocumentDataId].data =
                                   rows[Head(pairs).newDocumentDataId].data],
                  Tail(pairs))

\* A transaction that marks every sealed document COMPLETED.
SealCommit_AlwaysCompleted(s) ==
    /\ seal[s].pc = "commit"
    /\ documentData' = CopyData(documentData, seal[s].newDocumentData)
    /\ envelope' = [envelope EXCEPT ![seal[s].envelopeId].status = "COMPLETED"]
    /\ sealSuccess' = [sealSuccess EXCEPT ![seal[s].envelopeId] = @ + 1]
    /\ seal' = [seal EXCEPT ![s] = SealIdle]
    /\ returned' = Returned("seal", "ok", 0)
    /\ UNCHANGED <<now, started, certVars, teamVars, digitalSignature, envelopeItem, recipient,
                   sign>>

SealCommit(s) ==
    /\ seal[s].pc = "commit"
    /\ documentData' = CopyData(documentData, seal[s].newDocumentData)
    /\ envelope' = [envelope EXCEPT ![seal[s].envelopeId].status =
                       IF seal[s].isRejected THEN "REJECTED" ELSE "COMPLETED"]
    /\ sealSuccess' = [sealSuccess EXCEPT ![seal[s].envelopeId] = @ + 1]
    /\ seal' = [seal EXCEPT ![s] = SealIdle]
    /\ returned' = Returned("seal", "ok", 0)
    /\ UNCHANGED <<now, started, certVars, teamVars, digitalSignature, envelopeItem, recipient,
                   sign>>

\* Any await of the run throws: the job fails where it stands.
SealThrow(s) ==
    /\ seal[s].pc # "idle"
    /\ seal' = [seal EXCEPT ![s] = SealIdle]
    /\ returned' = Returned("seal", "error", 0)
    /\ UNCHANGED <<now, started, certVars, teamVars, digitalSignature, documentData, envelope,
                   envelopeItem, recipient, sign, sealSuccess>>

\* ------------------------------------------------------- team certificates

TeamCertIds == 1..Len(certificate)

UploadIdle == [pc |-> "idle", teamId |-> 0, isDefault |-> FALSE]
SetDefaultIdle == [pc |-> "idle", certificateId |-> NoCert, teamId |-> 0]

\* certificate.updateMany where teamId, isDefault true: isDefault false.
UnsetDefaults(teamId) ==
    [c \in TeamCertIds |->
        IF certificate[c].teamId = teamId /\ certificate[c].isDefault
        THEN [certificate[c] EXCEPT !.isDefault = FALSE]
        ELSE certificate[c]]

\* uploadCertificate up to its first write: an empty file is a BAD_REQUEST;
\* with isDefault the other defaults are unset first.
UploadStart(u, teamId, hasData, isDefault) ==
    /\ upload[u].pc = "idle"
    /\ Len(certificate) + Cardinality({x \in UploadCalls : upload[x].pc # "idle"})
          < MaxTeamCerts
    /\ IF ~hasData
       THEN /\ returned' = Returned("uploadCertificate", "BAD_REQUEST", NoCert)
            /\ UNCHANGED upload
       ELSE /\ upload' = [upload EXCEPT ![u] =
                            [pc |-> IF isDefault THEN "unset" ELSE "create",
                             teamId |-> teamId, isDefault |-> isDefault]]
            /\ UNCHANGED returned
    /\ UNCHANGED <<now, started, certVars, docVars, certificate, setDefault>>

UploadUnset(u) ==
    /\ upload[u].pc = "unset"
    /\ certificate' = UnsetDefaults(upload[u].teamId)
    /\ upload' = [upload EXCEPT ![u].pc = "create"]
    /\ UNCHANGED <<now, started, returned, certVars, docVars, setDefault>>

\* certificate.create with the encrypted file and passphrase.
UploadCreate(u) ==
    /\ upload[u].pc = "create"
    /\ certificate' = Append(certificate,
           [teamId |-> upload[u].teamId, isDefault |-> upload[u].isDefault,
            data |-> EncryptData(<<48, 116, upload[u].teamId>>),
            passphrase |-> EncryptString(<<116, 48 + upload[u].teamId>>)])
    /\ upload' = [upload EXCEPT ![u] = UploadIdle]
    /\ returned' = Returned("uploadCertificate", "ok", Len(certificate) + 1)
    /\ UNCHANGED <<now, started, certVars, docVars, setDefault>>

\* A deleted row: its id is not given out again and no query finds it.
DeletedRow == [teamId |-> 0, isDefault |-> FALSE, data |-> <<>>, passphrase |-> <<>>]

\* A lookup by id alone, whatever team asks.
FindCertificate_AnyTeam(certificateId, teamId) ==
    {c \in TeamCertIds : c = certificateId /\ certificate[c] # DeletedRow}

\* certificate.findFirst where id, teamId.
FindCertificate(certificateId, teamId) ==
    {c \in TeamCertIds : c = certificateId /\ certificate[c].teamId = teamId}

\* getCertificateData: the decrypted file and passphrase, or NOT_FOUND.
GetCertificateData(certificateId, teamId) ==
    IF FindCertificate(certificateId, teamId) = {}
    THEN Returned("getCertificateData", "NOT_FOUND", NoCert)
    ELSE Returned("getCertificateData", "ok",
                  [data |-> DecryptData(certificate[certificateId].data),
                   passphrase |-> DecryptString(certificate[certificateId].passphrase)])

GetCertificateDataCall(certificateId, teamId) ==
    /\ returned' = GetCertificateData(certificateId, teamId)
    /\ UNCHANGED <<now, started, certVars, docVars, teamVars>>

\* deleteCertificate: findFirst where id, teamId, or NOT_FOUND; then delete.
DeleteCertificate(certificateId, teamId) ==
    /\ IF FindCertificate(certificateId, teamId) = {}
       THEN /\ returned' = Returned("deleteCertificate", "NOT_FOUND", NoCert)
            /\ UNCHANGED certificate
       ELSE /\ certificate' = [certificate EXCEPT ![certificateId] = DeletedRow]
            /\ returned' = Returned("deleteCertificate", "ok", certificateId)
    /\ UNCHANGED <<now, started, certVars, docVars, upload, setDefault>>

\* What NEXT_PRIVATE_SIGNING_LOCAL_FILE_PATH can be: not set, the path of a
\* file that cannot be read, the path of a readable file.
LocalFilePaths == {"unset", "unreadable", "readable"}

\* What a selection leaves in `returned`: the source taken, the certificate
\* taken, the sources whose load was logged as failed, and what it was asked.
Selection(source, certificateId, failed, asked) ==
    [source |-> source, certificateId |-> certificateId, failed |-> failed,
     asked |-> asked]

\* A selection in which a configured certificate that fails to load ends the
\* incremental seal.
LoadSystemSealCertificate_NoCatch(teamId, certificateId, configuredLoads, defaultLoads, localFileContents, localFilePath) ==
    LET asked == <<teamId, certificateId, configuredLoads, defaultLoads,
                   localFileContents, localFilePath>>
        configured == IF teamId = 0 THEN {} ELSE FindCertificate(certificateId, teamId)
    IN  /\ returned' =
              IF configured # {} /\ configuredLoads
              THEN Returned("systemSealCertificate", "ok",
                            Selection("configured", certificateId, {}, asked))
              ELSE Returned("systemSealCertificate", "error",
                            Selection("none", NoCert, {}, asked))
        /\ UNCHANGED <<now, started, certVars, docVars, teamVars>>

\* decorateAndSignPdf choosing the certificate of the system seal: the
\* document's configured team certificate, else the team's default
\* certificate, else the certificate in the environment, else the local
\* file. A database certificate whose load throws is logged and passed over;
\* with no certificate at the end, or an unreadable file, the incremental
\* seal throws.
LoadSystemSealCertificate(teamId, certificateId, configuredLoads, defaultLoads, localFileContents, localFilePath) ==
    LET asked == <<teamId, certificateId, configuredLoads, defaultLoads,
                   localFileContents, localFilePath>>
        configured == IF teamId = 0 THEN {} ELSE FindCertificate(certificateId, teamId)
        fromConfigured == IF configuredLoads THEN configured ELSE {}
        defaults == IF fromConfigured # {} \/ teamId = 0 THEN {}
                    ELSE {c \in TeamCertIds : /\ certificate[c].teamId = teamId
                                              /\ certificate[c].isDefault}
        fromDefault == IF defaultLoads THEN defaults ELSE {}
        failed == (IF configured # {} /\ ~configuredLoads THEN {"configured"} ELSE {})
                     \cup (IF defaults # {} /\ ~defaultLoads THEN {"default"} ELSE {})
    IN  /\ \/ \E c \in fromConfigured :
                returned' = Returned("systemSealCertificate", "ok",
                                     Selection("configured", c, failed, asked))
           \/ \E c \in fromDefault :
                returned' = Returned("systemSealCertificate", "ok",
                                     Selection("default", c, failed, asked))
           \/ /\ fromConfigured = {} /\ fromDefault = {}
              /\ returned' =
                    IF localFileContents
                    THEN Returned("systemSealCertificate", "ok",
                                  Selection("environment", NoCert, failed, asked))
                    ELSE IF localFilePath = "readable"
                    THEN Returned("systemSealCertificate", "ok",
                                  Selection("file", NoCert, failed, asked))
                    ELSE Returned("systemSealCertificate", "error",
                                  Selection("none", NoCert,
                                            failed \cup (IF localFilePath = "unreadable"
                                                         THEN {"file"} ELSE {}),
                                            asked))
        /\ UNCHANGED <<now, started, certVars, docVars, teamVars>>

\* setDefaultCertificate: findFirst where id, teamId, or NOT_FOUND.
SetDefaultFind(d, certificateId, teamId) ==
    /\ setDefault[d].pc = "idle"
    /\ IF FindCertificate(certificateId, teamId) # {}
       THEN /\ setDefault' = [setDefault EXCEPT ![d] =
                                [pc |-> "unset", certificateId |-> certificateId,
                                 teamId |-> teamId]]
            /\ UNCHANGED returned
       ELSE /\ returned' = Returned("setDefaultCertificate", "NOT_FOUND", NoCert)
            /\ UNCHANGED setDefault
    /\ UNCHANGED <<now, started, certVars, docVars, certificate, upload>>

SetDefaultUnset(d) ==
    /\ setDefault[d].pc = "unset"
    /\ certificate' = UnsetDefaults(setDefault[d].teamId)
    /\ setDefault' = [setDefault EXCEPT ![d].pc = "set"]
    /\ UNCHANGED <<now, started, returned, certVars, docVars, upload>>

\* certificate.update where id: isDefault true; it throws when the row has
\* been deleted meanwhile.
SetDefaultSet(d) ==
    /\ setDefault[d].pc = "set"
    /\ IF certificate[setDefault[d].certificateId] = DeletedRow
       THEN /\ returned' = Returned("setDefaultCertificate", "error", NoCert)
            /\ UNCHANGED certificate
       ELSE /\ certificate' =
                  [certificate EXCEPT ![setDefault[d].certificateId].isDefault = TRUE]
            /\ returned' = Returned("setDefaultCertificate", "ok",
                                    setDefault[d].certificateId)
    /\ setDefault' = [setDefault EXCEPT ![d] = SetDefaultIdle]
    /\ UNCHANGED <<now, started, certVars, docVars, upload>>

\* ------------------------------------------------------------------- clock

Tick ==
    /\ now < MaxTime
    /\ now' = now + 1
    /\ UNCHANGED <<started, returned, certVars, teamVars, docVars>>

\* ----------------------------------------------------------- specification

Init ==
    /\ now = 0
    /\ userCertificate = <<>>
    /\ prov = [p \in ProvisionCalls |-> ProvisionIdle]
    /\ rev = [r \in RevokeCalls |-> RevokeIdle]
    /\ sweep = [w \in SweepRuns |-> SweepIdle]
    /\ caRequests = 0
    /\ started = [cert |-> 0, jobs |-> 0]
    /\ returned = Returned("none", "ok", 0)
    /\ digitalSignature = <<>>
    /\ documentData = [i \in DOMAIN EnvelopeItems |->
                          NewDocumentData(OriginalPdf(EnvelopeItems[i]))]
    /\ envelope = [e \in Envelopes |-> [status |-> "PENDING"]]
    /\ envelopeItem = [e \in Envelopes |-> [i \in DOMAIN EnvelopeItems |-> i]]
    /\ recipient = [e \in Envelopes |-> [r \in Recipients |-> "NOT_SIGNED"]]
    /\ sign = [t \in SignTasks |-> SignIdle]
    /\ seal = [s \in SealRuns |-> SealIdle]
    /\ sealSuccess = [e \in Envelopes |-> 0]
    /\ certificate = <<>>
    /\ upload = [u \in UploadCalls |-> UploadIdle]
    /\ setDefault = [d \in SetDefaultCalls |-> SetDefaultIdle]

\* No call of the certificate lifecycle is between two of its steps.
CertQuiet ==
    /\ \A p \in ProvisionCalls : prov[p].pc = "idle"
    /\ \A r \in RevokeCalls : rev[r].pc = "idle"
    /\ \A w \in SweepRuns : sweep[w].pc = "idle"

\* No job is between two of its steps.
DocQuiet ==
    /\ \A t \in SignTasks : sign[t].pc = "idle"
    /\ \A s \in SealRuns : seal[s].pc = "idle"

ProvisionOrRevokeStart ==
    \/ \E p \in ProvisionCalls, u \in Users : ProvisionStart(p, u)
    \/ \E r \in RevokeCalls, c \in CertIds, u \in Users : RevokeStart(r, c, u)

ProvisionOrRevokeStep ==
    \/ \E p \in ProvisionCalls : ProvisionCheck(p)
    \/ \E p \in ProvisionCalls : ProvisionRequest(p)
    \/ \E p \in ProvisionCalls : ProvisionCreate(p)
    \/ \E r \in RevokeCalls : RevokeFind(r)
    \/ \E r \in RevokeCalls : RevokeAtCA(r)
    \/ \E r \in RevokeCalls : RevokeUpdate(r)

GetActiveCall ==
    \E u \in Users, includeData \in BOOLEAN : GetActive(u, includeData)

CertStart ==
    \/ ProvisionOrRevokeStart
    \/ \E w \in SweepRuns : SweepSelect(w)

CertStep ==
    \/ ProvisionOrRevokeStep
    \/ \E w \in SweepRuns : SweepUpdate(w)

DocStart ==
    \/ \E t \in SignTasks, e \in Envelopes, r \in Signers : SignStart(t, e, r)
    \/ \E s \in SealRuns, e \in Envelopes, b \in BOOLEAN : SealStart(s, e, b)

DocStep ==
    \/ \E t \in SignTasks : SignGetCertificate(t)
    \/ \E t \in SignTasks : SignTransportLookup(t)
    \/ \E t \in SignTasks : SignAndStore(t)
    \/ \E t \in SignTasks : SignNextIndex(t)
    \/ \E t \in SignTasks : SignRecord(t)
    \/ \E t \in SignTasks : SignThrow(t)
    \/ \E s \in SealRuns : SealDecorate(s)
    \/ \E s \in SealRuns : SealReplay(s)
    \/ \E s \in SealRuns : SealSystem(s)
    \/ \E s \in SealRuns : SealStore(s)
    \/ \E s \in SealRuns : SealCommit(s)
    \/ \E s \in SealRuns : SealThrow(s)

Environment ==
    \/ \E e \in Envelopes, r \in Recipients : RecipientSigns(e, r)
    \/ \E e \in Envelopes, r \in Recipients : RecipientRejects(e, r)

\* The certificate lifecycle alone, its calls interleaved step by step.
NextCert ==
    \/ started.cert < MaxCertCalls /\ CertStart
    \/ started.cert < MaxCertCalls /\ GetActiveCall
    \/ CertStep
    \/ Tick

SpecCert == Init /\ [][NextCert]_vars

\* The certificate lifecycle alone, one call at a time.
NextCertSeq ==
    \/ started.cert < MaxCertCalls /\ CertQuiet /\ CertStart
    \/ started.cert < MaxCertCalls /\ CertQuiet /\ GetActiveCall
    \/ CertStep
    \/ Tick

SpecCertSeq == Init /\ [][NextCertSeq]_vars

\* The jobs interleaved step by step with each other and with provision and
\* revoke calls, which run one at a time. The clock stands still (a job lasts
\* seconds, a certificate a year), so the expiration sweep has nothing to do.
Next ==
    \/ started.cert < MaxDocCertCalls /\ CertQuiet /\ ProvisionOrRevokeStart
    \/ ProvisionOrRevokeStep
    \/ started.jobs < MaxJobs /\ DocStart
    \/ DocStep
    \/ Environment

Spec == Init /\ [][Next]_vars

\* Calls and jobs one at a time: each runs to its end before the next starts,
\* and the clock advances between and within them.
NextSeq ==
    \/ started.cert < MaxDocCertCalls /\ CertQuiet /\ DocQuiet /\ CertStart
    \/ CertStep
    \/ started.jobs < MaxJobs /\ CertQuiet /\ DocQuiet /\ DocStart
    \/ DocStep
    \/ Environment
    \/ Tick

SpecSeq == Init /\ [][NextSeq]_vars

\* Calls and jobs one at a time, certificates provisioned and never ended:
\* the setting of a ledger that is written and replayed in order.
ProvisionStep ==
    \/ \E p \in ProvisionCalls : ProvisionCheck(p)
    \/ \E p \in ProvisionCalls : ProvisionRequest(p)
    \/ \E p \in ProvisionCalls : ProvisionCreate(p)

NextLedger ==
    \/ /\ started.cert < MaxDocCertCalls /\ CertQuiet /\ DocQuiet
       /\ \E p \in ProvisionCalls, u \in Users : ProvisionStart(p, u)
    \/ ProvisionStep
    \/ started.jobs < MaxLedgerJobs /\ CertQuiet /\ DocQuiet /\ DocStart
    \/ DocStep
    \/ Environment

SpecLedger == Init /\ [][NextLedger]_vars

\* Signing tasks interleaved with each other, seal runs on their own: the
\* setting of a seal that replays a ledger written by concurrent tasks.
NextSignRace ==
    \/ /\ started.cert < MaxDocCertCalls /\ CertQuiet /\ DocQuiet
       /\ \E p \in ProvisionCalls, u \in Users : ProvisionStart(p, u)
    \/ ProvisionStep
    \/ /\ started.jobs < MaxLedgerJobs /\ CertQuiet
       /\ \A s \in SealRuns : seal[s].pc = "idle"
       /\ \E t \in SignTasks, e \in Envelopes, r \in Signers : SignStart(t, e, r)
    \/ /\ started.jobs < MaxLedgerJobs /\ CertQuiet /\ DocQuiet
       /\ \E s \in SealRuns, e \in Envelopes, b \in BOOLEAN : SealStart(s, e, b)
    \/ DocStep
    \/ Environment

SpecSignRace == Init /\ [][NextSignRace]_vars

\* The ledger API called directly: records of two documents inserted with
\* the index the caller passes, and the next index asked for.
LedgerEnvelopes == {1, 2}

RecordCall(envelopeId, signatureIndex) ==
    /\ Len(digitalSignature) < MaxLedgerLen
    /\ digitalSignature' = Append(digitalSignature,
           RecordDigitalSignature(envelopeId, NoRecipient, NoCert, signatureIndex))
    /\ returned' = Returned("recordDigitalSignature", "ok", signatureIndex)
    /\ UNCHANGED <<now, started, certVars, teamVars, documentData, envelope, envelopeItem,
                   recipient, sign, seal, sealSuccess>>

NextIndexCall(envelopeId) ==
    /\ returned' = Returned("getNextSignatureIndex", "ok",
                            GetNextSignatureIndex(envelopeId))
    /\ UNCHANGED <<now, started, certVars, teamVars, docVars>>

NextIndex ==
    \/ \E e \in LedgerEnvelopes, i \in 1..MaxIndex : RecordCall(e, i)
    \/ \E e \in LedgerEnvelopes : NextIndexCall(e)

SpecIndex == Init /\ [][NextIndex]_vars

\* Jobs one at a time in which no await throws other than those the seal run
\* catches itself (a replay, the incremental system seal), each seal run
\* scheduled until it returns.
NextSealFair ==
    \/ /\ started.cert < MaxDocCertCalls /\ CertQuiet /\ DocQuiet
       /\ \E p \in ProvisionCalls, u \in Users : ProvisionStart(p, u)
    \/ ProvisionStep
    \/ /\ started.jobs < MaxLedgerJobs /\ CertQuiet /\ DocQuiet
       /\ \E t \in SignTasks, e \in Envelopes, r \in Signers : SignStart(t, e, r)
    \/ \E t \in SignTasks : SignGetCertificate(t)
    \/ \E t \in SignTasks : SignTransportLookup(t)
    \/ \E t \in SignTasks : SignAndStore(t)
    \/ \E t \in SignTasks : SignNextIndex(t)
    \/ \E t \in SignTasks : SignRecord(t)
    \/ /\ started.jobs < MaxLedgerJobs /\ CertQuiet /\ DocQuiet
       /\ \E s \in SealRuns, e \in Envelopes, b \in BOOLEAN : SealStart(s, e, b)
    \/ \E s \in SealRuns : SealDecorate(s)
    \/ \E s \in SealRuns : SealReplay(s)
    \/ \E s \in SealRuns : SealSystem(s)
    \/ \E s \in SealRuns : SealStore(s)
    \/ \E s \in SealRuns : SealCommit(s)
    \/ Environment

SpecSealFair ==
    /\ Init
    /\ [][NextSealFair]_vars
    /\ \A s \in SealRuns : /\ WF_vars(SealDecorate(s))
                            /\ WF_vars(SealReplay(s))
                            /\ WF_vars(SealSystem(s))
                            /\ WF_vars(SealStore(s))
                            /\ WF_vars(SealCommit(s))

\* The team certificate calls, their steps interleaved.
NextTeam ==
    \/ \E u \in UploadCalls, team \in Teams, hasData, isDefault \in BOOLEAN :
          UploadStart(u, team, hasData, isDefault)
    \/ \E u \in UploadCalls : UploadUnset(u)
    \/ \E u \in UploadCalls : UploadCreate(u)
    \/ \E d \in SetDefaultCalls, c \in 1..MaxTeamCerts, team \in Teams :
          SetDefaultFind(d, c, team)
    \/ \E d \in SetDefaultCalls : SetDefaultUnset(d)
    \/ \E d \in SetDefaultCalls : SetDefaultSet(d)

SpecTeam == Init /\ [][NextTeam]_vars

\* The team certificate calls one at a time, with getCertificateData and
\* deleteCertificate among them.
TeamQuiet ==
    /\ \A u \in UploadCalls : upload[u].pc = "idle"
    /\ \A d \in SetDefaultCalls : setDefault[d].pc = "idle"

NextTeamSeq ==
    \/ /\ TeamQuiet
       /\ \E u \in UploadCalls, team \in Teams, hasData, isDefault \in BOOLEAN :
             UploadStart(u, team, hasData, isDefault)
    \/ \E u \in UploadCalls : UploadUnset(u)
    \/ \E u \in UploadCalls : UploadCreate(u)
    \/ /\ TeamQuiet
       /\ \E d \in SetDefaultCalls, c \in 1..MaxTeamCerts, team \in Teams :
             SetDefaultFind(d, c, team)
    \/ \E d \in SetDefaultCalls : SetDefaultUnset(d)
    \/ \E d \in SetDefaultCalls : SetDefaultSet(d)
    \/ /\ TeamQuiet
       /\ \E c \in 1..MaxTeamCerts, team \in Teams : GetCertificateDataCall(c, team)
    \/ /\ TeamQuiet
       /\ \E c \in 1..MaxTeamCerts, team \in Teams : DeleteCertificate(c, team)

SpecTeamSeq == Init /\ [][NextTeamSeq]_vars

\* Signing tasks interleaved step by step with provision and revoke calls,
\* which run one at a time: the setting of a task whose user's certificate
\* is revoked and issued anew while the task runs.
NextSignCert ==
    \/ started.cert < MaxCertCalls /\ CertQuiet /\ ProvisionOrRevokeStart
    \/ ProvisionOrRevokeStep
    \/ /\ started.jobs < MaxJobs
       /\ \E t \in SignTasks, e \in Envelopes, r \in Signers : SignStart(t, e, r)
    \/ \E t \in SignTasks : SignGetCertificate(t)
    \/ \E t \in SignTasks : SignTransportLookup(t)
    \/ \E t \in SignTasks : SignAndStore(t)
    \/ \E t \in SignTasks : SignNextIndex(t)
    \/ \E t \in SignTasks : SignRecord(t)
    \/ \E t \in SignTasks : SignThrow(t)

SpecSignCert == Init /\ [][NextSignCert]_vars

\* An envelope of two items, each with its own uploaded PDF; calls and jobs
\* one at a time.
TwoEnvelopeItems == <<1, 2>>

InitItems ==
    /\ now = 0
    /\ userCertificate = <<>>
    /\ prov = [p \in ProvisionCalls |-> ProvisionIdle]
    /\ rev = [r \in RevokeCalls |-> RevokeIdle]
    /\ sweep = [w \in SweepRuns |-> SweepIdle]
    /\ caRequests = 0
    /\ started = [cert |-> 0, jobs |-> 0]
    /\ returned = Returned("none", "ok", 0)
    /\ digitalSignature = <<>>
    /\ documentData = [i \in DOMAIN TwoEnvelopeItems |->
                          NewDocumentData(OriginalPdf(TwoEnvelopeItems[i]))]
    /\ envelope = [e \in Envelopes |-> [status |-> "PENDING"]]
    /\ envelopeItem = [e \in Envelopes |-> [i \in DOMAIN TwoEnvelopeItems |-> i]]
    /\ recipient = [e \in Envelopes |-> [r \in Recipients |-> "NOT_SIGNED"]]
    /\ sign = [t \in SignTasks |-> SignIdle]
    /\ seal = [s \in SealRuns |-> SealIdle]
    /\ sealSuccess = [e \in Envelopes |-> 0]
    /\ certificate = <<>>
    /\ upload = [u \in UploadCalls |-> UploadIdle]
    /\ setDefault = [d \in SetDefaultCalls |-> SetDefaultIdle]

NextItems ==
    \/ /\ started.cert < MaxDocCertCalls /\ CertQuiet /\ DocQuiet
       /\ \E p \in ProvisionCalls, u \in Users : ProvisionStart(p, u)
    \/ ProvisionStep
    \/ started.jobs < MaxJobs /\ CertQuiet /\ DocQuiet /\ DocStart
    \/ DocStep
    \/ Environment

SpecItems == InitItems /\ [][NextItems]_vars

\* Team certificates uploaded one at a time, and the seal's choice of its
\* certificate for a document of a team or of no team.
MaxSourceCerts == 2

NextSealSource ==
    \/ /\ TeamQuiet /\ Len(certificate) < MaxSourceCerts
       /\ \E u \in UploadCalls, team \in Teams, hasData, isDefault \in BOOLEAN :
             UploadStart(u, team, hasData, isDefault)
    \/ \E u \in UploadCalls : UploadUnset(u)
    \/ \E u \in UploadCalls : UploadCreate(u)
    \/ /\ TeamQuiet
       /\ \E team \in {0} \cup Teams, c \in 0..MaxSourceCerts,
             configuredLoads, defaultLoads, localFileContents \in BOOLEAN,
             localFilePath \in LocalFilePaths :
             LoadSystemSealCertificate(team, c, configuredLoads, defaultLoads,
                                       localFileContents, localFilePath)

SpecSealSource == Init /\ [][NextSealSource]_vars

\* The ledger written through recordDigitalSignature with the index and the
\* certificate the caller passes, and seal runs replaying it: the setting of
\* a ledger whose insertion order is not its index order. The ledger is
\* written first and sealed afterwards.
MaxReplayLen == 2
MaxReplayJobs == 1

RecordForCertificate(envelopeId, userCertificateId, signatureIndex) ==
    /\ Len(digitalSignature) < MaxReplayLen
    /\ userCertificateId \in DOMAIN userCertificate
    /\ digitalSignature' = Append(digitalSignature,
           RecordDigitalSignature(envelopeId, userCertificate[userCertificateId].userId,
                                  userCertificateId, signatureIndex))
    /\ returned' = Returned("recordDigitalSignature", "ok", signatureIndex)
    /\ UNCHANGED <<now, started, certVars, teamVars, documentData, envelope, envelopeItem,
                   recipient, sign, seal, sealSuccess>>

NextReplay ==
    \/ /\ started.cert < MaxDocCertCalls /\ CertQuiet /\ DocQuiet
       /\ \E p \in ProvisionCalls, u \in Users : ProvisionStart(p, u)
    \/ ProvisionStep
    \/ /\ started.jobs = 0 /\ CertQuiet
       /\ \E e \in Envelopes, c \in 1..MaxDocCertCalls, i \in 1..MaxIndex :
             RecordForCertificate(e, c, i)
    \/ /\ started.jobs < MaxReplayJobs /\ CertQuiet /\ DocQuiet
       /\ \E s \in SealRuns, e \in Envelopes, b \in BOOLEAN : SealStart(s, e, b)
    \/ \E s \in SealRuns : SealDecorate(s)
    \/ \E s \in SealRuns : SealReplay(s)
    \/ \E s \in SealRuns : SealSystem(s)
    \/ \E s \in SealRuns : SealStore(s)
    \/ \E s \in SealRuns : SealCommit(s)
    \/ \E s \in SealRuns : SealThrow(s)
    \/ Environment

SpecReplay == Init /\ [][NextReplay]_vars

\* ------------------------------------------------------------ vault calls
\* The four encryption functions called on their own, over short buffers and
\* short strings: an encrypt call leaves what it was given and what it
\* produced in `returned`, a decrypt call opens what the last encrypt produced.

MaxPlainLen == 2
ByteSamples == {0, 48, 255}
\* 'a', e-acute, the euro sign, a high and a low surrogate.
CodeUnitSamples == {97, 233, 8364, 55357, 56832}
Draws == {0, 255}

SeqsUpTo(S, n) == UNION {[1 .. k -> S] : k \in 0 .. n}
Buffers == SeqsUpTo(ByteSamples, MaxPlainLen)
Strings == SeqsUpTo(CodeUnitSamples, MaxPlainLen)

EncryptDataCall(data, r1, r2) ==
    /\ returned' = Returned("encryptData", "ok",
           [plain |-> data,
            stored |-> EncryptDataWith(data, RandomBytes(SALT_LENGTH, r1),
                                       RandomBytes(IV_LENGTH, r2))])
    /\ UNCHANGED <<now, started, certVars, docVars, teamVars>>

DecryptDataCall ==
    /\ returned.op = "encryptData"
    /\ returned' = Returned("decryptData", "ok",
           [plain |-> returned.value.plain,
            opened |-> DecryptData(returned.value.stored)])
    /\ UNCHANGED <<now, started, certVars, docVars, teamVars>>

EncryptStringCall(data, r1, r2) ==
    /\ returned' = Returned("encryptString", "ok",
           [plain |-> data,
            stored |-> EncryptStringWith(data, RandomBytes(SALT_LENGTH, r1),
                                         RandomBytes(IV_LENGTH, r2))])
    /\ UNCHANGED <<now, started, certVars, docVars, teamVars>>

DecryptStringCall ==
    /\ returned.op = "encryptString"
    /\ returned' = Returned("decryptString", "ok",
           [plain |-> returned.value.plain,
            opened |-> DecryptString(returned.value.stored)])
    /\ UNCHANGED <<now, started, certVars, docVars, teamVars>>

NextVault ==
    \/ \E data \in Buffers, r1, r2 \in Draws : EncryptDataCall(data, r1, r2)
    \/ DecryptDataCall
    \/ \E data \in Strings, r1, r2 \in Draws : EncryptStringCall(data, r1, r2)
    \/ DecryptStringCall

SpecVault == Init /\ [][NextVault]_vars

\* -------------------------------------------------------------- properties

\* A certificate that may be used: status ACTIVE and not past its expiresAt.
Live(c) == userCertificate[c].status = "ACTIVE" /\ userCertificate[c].expiresAt >= now

\* The ledger rows of an envelope written by the seal and by the sign job.
SealRecords(e) ==
    {k \in DOMAIN digitalSignature :
        digitalSignature[k].envelopeId = e /\ digitalSignature[k].recipientId = NoRecipient}
RecipientRecords(e) ==
    {k \in DOMAIN digitalSignature :
        digitalSignature[k].envelopeId = e /\ digitalSignature[k].recipientId # NoRecipient}

\* The PDF the envelope's first item points at.
CurrentPdf(e) == documentData[envelopeItem[e][1]].data

C2_AtMostOneLiveCertificate ==
    \A u \in Users :
        Cardinality({c \in CertIds : userCertificate[c].userId = u /\ Live(c)}) <= 1

\* C3: at most one seal run is in flight per document: a second trigger never
\* executes its steps while a first run for the same document has not ended.
C3_OneSealInFlight ==
    \A s1, s2 \in SealRuns :
        (s1 # s2 /\ seal[s1].pc # "idle" /\ seal[s2].pc # "idle")
        => seal[s1].envelopeId # seal[s2].envelopeId

\* C4: a seal that failed part-way and is invoked again to success leaves what
\* one uninterrupted seal leaves: when the first seal of a document succeeds,
\* the ledger holds one system-seal record per envelope item, not more.
C4_ReentrantSeal ==
    [][\A e \in Envelopes :
          (sealSuccess[e] = 0 /\ sealSuccess'[e] = 1)
          => Cardinality(SealRecords(e))' <= Len(EnvelopeItems)]_vars

\* C5: two sign jobs of two recipients of the same document never record the
\* same signatureIndex, under every interleaving of their steps.
C5_UniqueIndexAcrossRecipients ==
    \A e \in Envelopes : \A j, k \in RecipientRecords(e) :
        digitalSignature[j].recipientId # digitalSignature[k].recipientId
        => digitalSignature[j].signatureIndex # digitalSignature[k].signatureIndex

\* C6: no signature is lost: when the sign jobs of all signers have recorded,
\* no job is in flight and no seal has rewritten the document, the current
\* bytes carry a signature of every signer.
C6_NoLostSignature ==
    \A e \in Envelopes :
        (/\ DocQuiet
         /\ ~CurrentPdf(e).decorated
         /\ SealRecords(e) = {}
         /\ \A r \in Signers :
               \E k \in RecipientRecords(e) : digitalSignature[k].recipientId = r)
        => \A r \in Signers :
             \E n \in DOMAIN CurrentPdf(e).sigs :
                /\ CurrentPdf(e).sigs[n].signer = "user"
                /\ userCertificate[CurrentPdf(e).sigs[n].cert].userId = RecipientUser(r)

\* C7: once a document is COMPLETED or REJECTED, a step of a sign job changes
\* neither the items' pointers to the current bytes nor the ledger.
C7_SealedIsImmutable ==
    [][\A e \in Envelopes :
          (envelope[e].status \in {"COMPLETED", "REJECTED"} /\ sign' # sign)
          => (envelopeItem'[e] = envelopeItem[e]
              /\ LedgerOf(e)' = LedgerOf(e))]_vars

\* C8: provisioning is idempotent: when a provision call returned certificate
\* c and the next call, for the same user, looks up while c is still ACTIVE
\* and unexpired, that call ends returning c again, makes no CA request and
\* creates no row.
C8_ProvisionIdempotent ==
    [][\A p \in ProvisionCalls :
          (/\ prov[p].pc = "check"
           /\ prov'[p] # prov[p]
           /\ returned.op = "provision"
           /\ returned.outcome = "ok"
           /\ userCertificate[returned.value].userId = prov[p].userId
           /\ Live(returned.value))
          => (/\ prov'[p].pc = "idle"
              /\ returned' = returned
              /\ userCertificate' = userCertificate
              /\ caRequests' = caRequests)]_vars

\* A second provision call about to look up, after a first one returned a
\* certificate of the same user that is still live.
C8_Witness ==
    \E p \in ProvisionCalls :
        /\ prov[p].pc = "check"
        /\ returned.op = "provision"
        /\ returned.outcome = "ok"
        /\ userCertificate[returned.value].userId = prov[p].userId
        /\ Live(returned.value)
        /\ started.cert = 2

\* C9: revocation is terminal: a certificate whose status is REVOKED has
\* status REVOKED in every later state.
C9_RevokedIsTerminal ==
    [][\A c \in CertIds :
          userCertificate[c].status = "REVOKED"
          => userCertificate'[c].status = "REVOKED"]_vars

\* C10: a certificate that is REVOKED or EXPIRED is not used again: a sign job
\* or a replay of the seal that runs after the change signs only with a
\* certificate that is ACTIVE and unexpired when it is looked up.
C10_OnlyLiveCertificatesSign ==
    [][/\ \A t \in SignTasks :
            /\ (sign'[t].certificateId # sign[t].certificateId
                /\ sign'[t].certificateId # NoCert) => Live(sign'[t].certificateId)
            /\ (sign'[t].signer # sign[t].signer
                /\ sign'[t].signer # NoCert) => Live(sign'[t].signer)
       /\ \A s \in SealRuns :
            (/\ seal[s].pc = "replay"
             /\ seal'[s].pc \in {"replay", "seal"}
             /\ Len(seal'[s].pdfForSigning.sigs) > Len(seal[s].pdfForSigning.sigs))
            => Live(seal'[s].pdfForSigning.sigs[Len(seal'[s].pdfForSigning.sigs)].cert)
      ]_vars

\* A sign job holds the certificate it signs with while an earlier certificate
\* of the same user is revoked or expired.
C10_Witness ==
    \E t \in SignTasks, c \in CertIds :
        /\ sign[t].pc = "signing"
        /\ Live(sign[t].signer)
        /\ c # sign[t].signer
        /\ userCertificate[c].userId = sign[t].userId
        /\ ~Live(c)

\* The certificates of a user that are ACTIVE and not past their expiresAt.
LiveCertificatesOf(u) ==
    {c \in CertIds : userCertificate[c].userId = u /\ Live(c)}

\* C11: getActive(userId) returns a certificate only if it belongs to userId,
\* is ACTIVE and is unexpired; when the user has no such certificate it
\* returns null, whatever other certificates the user has.
C11_GetActiveFilters ==
    [][\A u \in Users, includeData \in BOOLEAN :
          GetActive(u, includeData)
          => IF LiveCertificatesOf(u) = {}
             THEN returned'.outcome = "null"
             ELSE /\ returned'.outcome = "ok"
                  /\ returned'.value.id \in LiveCertificatesOf(u)]_vars

\* getActive, the third call after every user got a certificate, returned
\* null: the user asked for has a certificate, and it is not live.
C11_Witness ==
    /\ returned.op = "getActive"
    /\ returned.outcome = "null"
    /\ started.cert = 3
    /\ \A u \in Users : \E c \in CertIds : userCertificate[c].userId = u

\* C12: getActive with includeData false returns neither the decrypted
\* certificate archive nor the decrypted passphrase: the two fields of its
\* result are the stored (encrypted) values of the row.
C12_NoSecretWithoutIncludeData ==
    [][\A u \in Users :
          (GetActive(u, FALSE) /\ returned'.outcome = "ok")
          => LET c == returned'.value.id IN
               /\ returned'.value.certificateData = userCertificate[c].certificateData
               /\ returned'.value.passphrase = userCertificate[c].passphrase
               /\ returned'.value.certificateData
                     # CertificateResponse(userCertificate[c].userId).certificateData
               /\ returned'.value.passphrase
                     # CertificateResponse(userCertificate[c].userId).passphrase]_vars

\* getActive returned a certificate with its secrets still encrypted.
C12_Witness ==
    /\ returned.op = "getActive"
    /\ returned.outcome = "ok"
    /\ returned.value.certificateData
          = EncryptData(CertificateResponse(returned.value.userId).certificateData)
    /\ returned.value.passphrase
          = EncryptString(CertificateResponse(returned.value.userId).passphrase)

\* The certificate a revoke call names exists and belongs to the caller.
RevokeOwned(r) ==
    /\ rev[r].certificateId \in CertIds
    /\ userCertificate[rev[r].certificateId].userId = rev[r].userId

\* C13: revoking a certificate that is already REVOKED fails with an
\* InvalidState-class error, one that is neither NotFound nor the generic
\* failure; the CA is not called and the row stays as it is.
C13_RevokeTwiceInvalidState ==
    [][\A r \in RevokeCalls :
          (/\ rev[r].pc = "find"
           /\ rev'[r] # rev[r]
           /\ RevokeOwned(r)
           /\ userCertificate[rev[r].certificateId].status = "REVOKED")
          => (/\ rev'[r].pc = "idle"
              /\ returned'.op = "revoke"
              /\ returned'.outcome \notin {"ok", "NOT_FOUND", "UNKNOWN_ERROR"}
              /\ userCertificate' = userCertificate)]_vars

\* C14: revoking a certificate that does not belong to the caller fails with
\* NotFound; the CA is not called and the row stays as it is.
C14_RevokeNotOwnedNotFound ==
    [][\A r \in RevokeCalls :
          (/\ rev[r].pc = "find"
           /\ rev'[r] # rev[r]
           /\ ~RevokeOwned(r))
          => (/\ rev'[r].pc = "idle"
              /\ returned'.op = "revoke"
              /\ returned'.outcome = "NOT_FOUND"
              /\ userCertificate' = userCertificate)]_vars

\* C15: when the CA's revoke call fails, the failure is surfaced to the caller
\* and the certificate is REVOKED locally all the same, with revokedAt set.
C15_RevokedDespiteCAFailure ==
    [][\A r \in RevokeCalls :
          (/\ rev[r].pc = "ca"
           /\ rev'[r].pc = "idle")
          => (/\ returned'.op = "revoke"
              /\ returned'.outcome # "ok"
              /\ userCertificate'[rev[r].certificateId].status = "REVOKED"
              /\ userCertificate'[rev[r].certificateId].revokedAt # -1)]_vars

ActiveAndPast(c) ==
    userCertificate[c].status = "ACTIVE" /\ userCertificate[c].expiresAt < now

\* C17: a sweep selects exactly the certificates that are ACTIVE with
\* expiresAt in the past when it queries; with none it returns 0 and writes
\* nothing; otherwise it moves the selected certificates to EXPIRED, returns
\* their number, and leaves every other row and every other field as it was.
C17_SweepExpiresExactlyActivePast ==
    [][\A w \in SweepRuns :
          /\ (sweep[w].pc = "idle" /\ sweep'[w].pc = "update")
             => (/\ sweep'[w].expiredCerts = {c \in CertIds : ActiveAndPast(c)}
                 /\ userCertificate' = userCertificate)
          /\ (sweep[w].pc = "idle" /\ returned' # returned /\ returned'.op = "sweep")
             => (/\ {c \in CertIds : ActiveAndPast(c)} = {}
                 /\ returned'.value = 0
                 /\ userCertificate' = userCertificate)
          /\ (sweep[w].pc = "update" /\ sweep'[w].pc = "idle")
             => (/\ returned' = Returned("sweep", "ok", Cardinality(sweep[w].expiredCerts))
                 /\ Len(userCertificate') = Len(userCertificate)
                 /\ \A c \in CertIds :
                       IF c \in sweep[w].expiredCerts
                       THEN /\ userCertificate[c].expiresAt < now
                            /\ userCertificate'[c] =
                                  [userCertificate[c] EXCEPT !.status = "EXPIRED"]
                       ELSE userCertificate'[c] = userCertificate[c])]_vars

\* A sweep expired one certificate and left a later, unexpired one ACTIVE.
C17_Witness ==
    /\ returned = Returned("sweep", "ok", 1)
    /\ \E c, d \in CertIds :
          /\ userCertificate[c].status = "EXPIRED"
          /\ userCertificate[c].expiresAt < now
          /\ userCertificate[d].status = "ACTIVE"
          /\ userCertificate[d].expiresAt >= now

C19_ReplayThenSeal ==
    [][\A s \in SealRuns :
          LET existing == seal[s].existingSignatures
              n == Len(existing)
              sigs == seal'[s].pdfForSigning.sigs
          IN (/\ seal[s].pc = "seal" /\ seal'[s].pc = "store"
              /\ digitalSignature' # digitalSignature
              /\ \A k \in 1..n : /\ existing[k].userCertificateId # NoCert
                                  /\ Live(existing[k].userCertificateId)
              /\ \A j, k \in 1..n :
                    j # k => existing[j].recipientId # existing[k].recipientId
              /\ ~seal[s].isRejected
              /\ Len(seal[s].pdfForSigning.sigs) = n)
             => (/\ Len(sigs) = n + 1
                 /\ \A k \in 1..n : /\ sigs[k].signer = "user"
                                     /\ sigs[k].field = existing[k].signatureIndex
                 /\ sigs[n + 1].signer = "system"
                 /\ \A j, k \in 1..(n + 1) : j # k => sigs[j].field # sigs[k].field)]_vars

\* A signature a signing task applied: a user's, in the default field.
FromSigningTask(signature) == signature.signer = "user" /\ signature.field = 0

\* C20: the PDF a seal run loads for decoration, re-seal or not, carries no
\* signature applied by a per-recipient signing task.
C20_SealLoadsPreSignatureBytes ==
    \A s \in SealRuns :
       seal[s].pc = "decorate"
       => LET loaded == seal[s].envelopeItems[seal[s].item].pdf
          IN \A k \in DOMAIN loaded.sigs : ~FromSigningTask(loaded.sigs[k])

\* The completion precondition as the claim words it.
MayProceed(e) ==
    \/ \E r \in Recipients : recipient[e][r] = "REJECTED"
    \/ /\ \A r \in Recipients :
             recipient[e][r] = "SIGNED" \/ RecipientRole(r) = "CC"
       /\ ~UnsignedRequiredField(recipient[e])

C22_StatusSetAfterSealedBytesStored ==
    [][/\ \A e \in Envelopes :
            envelope'[e] # envelope[e]
            => \E s \in SealRuns :
                 /\ seal[s].pc = "commit" /\ seal'[s].pc = "idle"
                 /\ seal[s].envelopeId = e
                 /\ returned' = Returned("seal", "ok", 0)
                 /\ Len(seal[s].newDocumentData) = Len(EnvelopeItems)
                 /\ \A i \in DOMAIN seal[s].newDocumentData :
                       LET new == seal[s].newDocumentData[i].newDocumentDataId
                       IN /\ new \in DOMAIN documentData
                          /\ documentData[new].data.decorated
                          /\ Len(documentData[new].data.sigs) > 0
       /\ \A s \in SealRuns :
            (seal[s].pc = "commit" /\ seal'[s].pc = "idle" /\ returned'.outcome = "ok")
            => envelope'[seal[s].envelopeId].status =
                 IF \E r \in Signers : recipient[seal[s].envelopeId][r] = "REJECTED"
                 THEN "REJECTED" ELSE "COMPLETED"
       /\ \A s \in SealRuns :
            (seal[s].pc # "idle" /\ seal'[s].pc = "idle" /\ returned'.outcome = "error")
            => envelope' = envelope]_vars

\* A seal run stored the sealed bytes and marked a rejected document REJECTED.
C22_Witness ==
    /\ returned = Returned("seal", "ok", 0)
    /\ envelope[1].status = "REJECTED"
    /\ \E r \in Signers : recipient[1][r] = "REJECTED"
    /\ CurrentPdf(1).decorated

RecordsOf(e, r) ==
    {k \in DOMAIN digitalSignature :
        digitalSignature[k].envelopeId = e /\ digitalSignature[k].recipientId = r}

\* C23: the ledger holds at most one record for a (document, recipient)
\* pair, however many times the signing task runs for the pair.
C23_OneRecordPerRecipient ==
    \A e \in Envelopes, r \in Signers :
       /\ Cardinality(RecordsOf(e, r)) <= 1
       /\ HasRecipientDigitallySigned(e, r) <=> RecordsOf(e, r) # {}

\* C24: every ledger record, the system seal's included, references exactly
\* one of a user certificate and a team certificate.
C24_ExactlyOneCertificate ==
    \A k \in DOMAIN digitalSignature :
       (digitalSignature[k].userCertificateId # NoCert)
       # (digitalSignature[k].teamCertificateId # NoCert)

\* C25: the ledger is append-only: a step that changes it adds one record at
\* the end and leaves every record already present as it was.
C25_LedgerAppendOnly ==
    [][digitalSignature' # digitalSignature
       => /\ Len(digitalSignature') = Len(digitalSignature) + 1
          /\ \A k \in DOMAIN digitalSignature :
                digitalSignature'[k] = digitalSignature[k]]_vars

\* A signing task's record is still in place after the seal added its own.
C25_Witness ==
    /\ Len(digitalSignature) = 2
    /\ digitalSignature[1].recipientId \in Signers
    /\ digitalSignature[1].signatureIndex = 1
    /\ digitalSignature[2].recipientId = NoRecipient
    /\ envelope[1].status = "COMPLETED"

C27_SignFailureIsReturned ==
    [][\A t \in SignTasks :
          /\ (sign[t].pc # "idle" /\ sign'[t].pc = "idle")
             => /\ returned'.op = "sign"
                /\ returned'.outcome \in {"ok", "skipped", "error"}
                /\ returned'.outcome # "ok" => digitalSignature' = digitalSignature
          /\ (sign[t].pc # "idle" /\ sign'[t] # sign[t] /\ sign'[t].pc # "idle")
             => digitalSignature' = digitalSignature]_vars

\* A task whose user holds a live certificate failed after it had looked the
\* certificate up, and the ledger is empty.
C27_Witness ==
    /\ returned = Returned("sign", "error", 0)
    /\ DocQuiet
    /\ digitalSignature = <<>>
    /\ \A u \in Users : LiveCertificatesOf(u) # {}

\* The run's bytes were signed by the fallback signer.
FallbackSigned(s) ==
    /\ seal[s].pc \in {"store", "commit"}
    /\ seal[s].pdfForSigning.sigs = <<FallbackSignature>>

Sealed(e) == envelope[e].status \in {"COMPLETED", "REJECTED"}

\* C28: when the other steps of a seal run do not fail, a run whose
\* incremental system seal fails is signed by the fallback signer instead of
\* ending, stores those bytes as the current bytes of the document, and the
\* document reaches COMPLETED or REJECTED.
C28_FallbackStillSeals ==
    /\ [][\A s \in SealRuns :
            (seal[s].pc = "seal" /\ seal'[s] # seal[s]
             /\ digitalSignature' = digitalSignature)
            => FallbackSigned(s)']_vars
    /\ [][\A s \in SealRuns :
            (FallbackSigned(s) /\ seal[s].pc = "store" /\ seal'[s] # seal[s])
            => /\ seal'[s].pc = "commit"
               /\ CurrentPdf(seal[s].envelopeId)' = seal[s].pdfForSigning]_vars
    /\ \A s \in SealRuns :
          FallbackSigned(s) ~> (seal[s].pc = "idle" /\ Sealed(1))

\* The fallback signer's bytes are the document's current bytes and the
\* document is COMPLETED, with no system-seal record in the ledger.
C28_Witness ==
    /\ envelope[1].status = "COMPLETED"
    /\ CurrentPdf(1).sigs = <<FallbackSignature>>
    /\ digitalSignature = <<>>
    /\ returned = Returned("seal", "ok", 0)

\* C29: a replay iteration moves on to the next record, or to the system
\* seal after the last one, whether or not its record could be replayed; it
\* adds that record's signature or nothing, and keeps the signatures already
\* replayed; a run that is replaying goes on to return with the document
\* sealed.
C29_ReplayFailureSkipsOneRecord ==
    /\ [][\A s \in SealRuns :
            (seal[s].pc = "replay" /\ seal'[s] # seal[s])
            => LET existing == seal[s].existingSignatures
                   k == seal[s].next
                   before == seal[s].pdfForSigning.sigs
                   after == seal'[s].pdfForSigning.sigs
               IN /\ seal'[s].next = k + 1
                  /\ seal'[s].existingSignatures = existing
                  /\ seal'[s].pc = IF k = Len(existing) THEN "seal" ELSE "replay"
                  /\ \/ after = before
                     \/ /\ Len(after) = Len(before) + 1
                        /\ SubSeq(after, 1, Len(before)) = before
                        /\ after[Len(after)].signer = "user"
                        /\ after[Len(after)].field = existing[k].signatureIndex]_vars
    /\ \A s \in SealRuns :
          (seal[s].pc = "replay") ~> (seal[s].pc = "idle" /\ Sealed(1))

\* The replay of the first of two records failed; the second was replayed
\* and the system seal applied, and the document is COMPLETED.
C29_Witness ==
    /\ envelope[1].status = "COMPLETED"
    /\ Len(digitalSignature) = 3
    /\ \A k \in 1..2 : /\ digitalSignature[k].userCertificateId # NoCert
                        /\ Live(digitalSignature[k].userCertificateId)
                        /\ digitalSignature[k].signatureIndex = k
    /\ Len(CurrentPdf(1).sigs) = 2
    /\ CurrentPdf(1).sigs[1].signer = "user" /\ CurrentPdf(1).sigs[1].field = 2
    /\ CurrentPdf(1).sigs[2] = SystemSignature(3)

DefaultsOf(team) ==
    {c \in TeamCertIds : certificate[c].teamId = team /\ certificate[c].isDefault}

\* C30: in every state, whatever the interleaving of upload and setDefault
\* calls, a team has at most one certificate flagged isDefault.
C30_AtMostOneDefault ==
    \A team \in Teams : Cardinality(DefaultsOf(team)) <= 1

\* A string in which every surrogate code unit is half of a pair.
WellFormed(str) ==
    \A i \in 1 .. Len(str) :
       /\ str[i] \in HighSurrogates => i < Len(str) /\ str[i + 1] \in LowSurrogates
       /\ str[i] \in LowSurrogates => i > 1 /\ str[i - 1] \in HighSurrogates

\* C31 as stated: decryptData gives back every buffer encryptData was given,
\* the empty one included, and decryptString gives back every string
\* encryptString was given.
C31_RoundTripEveryString ==
    /\ returned.op = "decryptData" => returned.value.opened = returned.value.plain
    /\ returned.op = "decryptString" => returned.value.opened = returned.value.plain

\* C31: decryptData gives back every buffer encryptData was given, the empty
\* one included; decryptString gives back every string encryptString was
\* given in which no surrogate code unit stands alone.
C31_RoundTrip ==
    /\ returned.op = "decryptData" => returned.value.opened = returned.value.plain
    /\ returned.op = "decryptString" /\ WellFormed(returned.value.plain)
          => returned.value.opened = returned.value.plain

\* The empty buffer has been encrypted and opened again.
C31_Witness ==
    /\ returned.op = "decryptData"
    /\ returned.value.plain = <<>>
    /\ returned.value.opened = <<>>

\* C32: the records a seal run replays are in ascending signatureIndex
\* order, whatever order they were inserted in. (The claim says strictly
\* ascending; this is the weaker statement that no record is replayed after
\* one of greater index.)
C32_ReplayInIndexOrder ==
    \A s \in SealRuns :
       \A i, j \in DOMAIN seal[s].existingSignatures :
          i < j => seal[s].existingSignatures[i].signatureIndex
                      <= seal[s].existingSignatures[j].signatureIndex

\* C33: a record that the seal run replays is signed again with the
\* certificate the record references, also when the user has a newer active
\* certificate by then.
C33_ReplayUsesRecordedCertificate ==
    [][\A s \in SealRuns :
          (/\ SealReplay(s)
           /\ Len(seal'[s].pdfForSigning.sigs) > Len(seal[s].pdfForSigning.sigs))
          => seal'[s].pdfForSigning.sigs[Len(seal'[s].pdfForSigning.sigs)].cert
                = seal[s].existingSignatures[seal[s].next].userCertificateId]_vars

\* C34: whenever the seal run records the system seal, the ordinal it uses
\* (the number of records it read, plus one) is the ledger's next index for
\* the document, and so is greater than every index recorded for it.
C34_SealOrdinalIsNextIndex ==
    [][\A s \in SealRuns :
          (SealSystem(s) /\ digitalSignature' # digitalSignature)
          => /\ digitalSignature'[Len(digitalSignature')].signatureIndex
                   = GetNextSignatureIndex(seal[s].envelopeId)
             /\ \A i \in IndicesOf(seal[s].envelopeId) :
                   i < digitalSignature'[Len(digitalSignature')].signatureIndex]_vars

\* The certificate id is a row of the team.
BelongsTo(certificateId, team) ==
    certificateId \in TeamCertIds /\ certificate[certificateId].teamId = team

\* C38: getCertificateData, deleteCertificate and setDefaultCertificate
\* called with a certificate id that is not a row of the given team end with
\* NOT_FOUND and leave the table as it was: nothing is deleted, no isDefault
\* flag changes.
C38_ForeignIdIsNotFound ==
    [][\A c \in 1..MaxTeamCerts, team \in Teams :
          ~BelongsTo(c, team)
          => /\ GetCertificateDataCall(c, team)
                  => returned'.outcome = "NOT_FOUND" /\ certificate' = certificate
             /\ DeleteCertificate(c, team)
                  => returned'.outcome = "NOT_FOUND" /\ certificate' = certificate
             /\ \A d \in SetDefaultCalls :
                   SetDefaultFind(d, c, team)
                   => /\ returned'.outcome = "NOT_FOUND"
                      /\ certificate' = certificate
                      /\ setDefault' = setDefault]_vars

\* A delete has ended NOT_FOUND while the other team has its default
\* certificate and both teams have rows.
C38_Witness ==
    /\ returned = Returned("deleteCertificate", "NOT_FOUND", NoCert)
    /\ \E t \in Teams : DefaultsOf(t) # {}
    /\ \A t \in Teams : \E c \in TeamCertIds : certificate[c].teamId = t

\* C35: the seal takes its certificate from the first source, in the order
\* configured team certificate, team default certificate, environment,
\* local file, that yields one; a database certificate that fails to load
\* is passed over; the incremental seal fails only when no source yields a
\* certificate.
C35_FirstSourceThatYields ==
    [][(returned'.op = "systemSealCertificate" /\ returned' # returned)
          => LET chosen == returned'.value
                 team == chosen.asked[1]
                 c == chosen.asked[2]
                 localFileContents == chosen.asked[5]
                 localFilePath == chosen.asked[6]
                 configuredYields == team # 0 /\ BelongsTo(c, team) /\ chosen.asked[3]
                 defaultYields == team # 0 /\ DefaultsOf(team) # {} /\ chosen.asked[4]
             IN  /\ configuredYields
                      => chosen.source = "configured" /\ chosen.certificateId = c
                 /\ ~configuredYields /\ defaultYields
                      => /\ chosen.source = "default"
                         /\ chosen.certificateId \in DefaultsOf(team)
                 /\ ~configuredYields /\ ~defaultYields /\ localFileContents
                      => chosen.source = "environment"
                 /\ (/\ ~configuredYields /\ ~defaultYields /\ ~localFileContents
                     /\ localFilePath = "readable")
                      => chosen.source = "file"
                 /\ returned'.outcome = "error"
                      <=> /\ ~configuredYields /\ ~defaultYields /\ ~localFileContents
                          /\ localFilePath # "readable"]_vars

\* The seal has taken the certificate of the environment after both the
\* configured and the default certificate of the team failed to load.
C35_Witness ==
    /\ returned.op = "systemSealCertificate"
    /\ returned.outcome = "ok"
    /\ returned.value.source = "environment"
    /\ returned.value.failed = {"configured", "default"}

\* C36: the certificate a signing task records in the ledger is the
\* certificate that signed the bytes the task stored, also when revoke and
\* provision calls for the user run between the task's steps.
C36_RecordedCertificateSigned ==
    [][\A t \in SignTasks :
          (SignRecord(t) /\ digitalSignature' # digitalSignature)
          => digitalSignature'[Len(digitalSignature')].userCertificateId
                = sign[t].signer]_vars

\* C37: in an envelope of several items no two items point at the same
\* stored document data, and the bytes an item points at derive from the
\* PDF uploaded for that item.
C37_ItemsKeepOwnData ==
    \A e \in Envelopes :
       \A i, j \in DOMAIN envelopeItem[e] :
          /\ i # j => envelopeItem[e][i] # envelopeItem[e][j]
          /\ documentData[envelopeItem[e][i]].data.item = i

=============================================================================
